---- MODULE Spec2Model ----
(***************************************************************************)
(* State-machine model of @tijs/atproto-oauth: the OAuth session store     *)
(* (sessions.ts) and the route handlers (routes.ts).  Every handler is an   *)
(* async function; a handler invocation is a process whose steps are the    *)
(* stretches of code between two awaits.  The external collaborators (the   *)
(* OAuth client, the cookie session manager, the storage backend) answer    *)
(* each call with any outcome their interface allows: a value or a throw.   *)
(***************************************************************************)
EXTENDS Integers, Sequences, FiniteSets, TLC

\* ------------------------------------------------------------------ bounds

\* Handler invocations started in one behaviour.
MaxRequests == 2

\* Recovery rounds followed in one behaviour.
MaxRounds == 2

\* ------------------------------------------------------------------ values

Procs == {"p1", "p2", "p3"}

DIDs == {"did:plc:a", "did:plc:b"}

Tokens == {"at1", "at2"}

\* JavaScript null / undefined, as the value of a variable or a field.
Null == [k |-> "null"]
Undefined == [k |-> "undefined"]

\* A live OAuth session object (SessionInterface).
Session(d, t) == [k |-> "session", did |-> d, accessToken |-> t]

\* session.toJSON(): the serialized form the OAuth client owns.
ToJSON(s) == [did |-> s.did, accessToken |-> s.accessToken]

\* `session:${did}`
SessionKey(d) == <<"session:", d>>

Keys == {SessionKey(d) : d \in DIDs}

NoRecord == [k |-> "absent"]

\* Values a collaborator can throw.  cls is the class instanceof sees;
\* isError is `instanceof Error`.
NetErr == [cls |-> "NetworkError", isError |-> TRUE, msg |-> "Connection refused"]
NetErr2 == [cls |-> "NetworkError", isError |-> TRUE, msg |-> "DNS lookup failed"]
SessErr == [cls |-> "SessionError", isError |-> TRUE, msg |-> "Failed to restore session"]
PlainErr == [cls |-> "Error", isError |-> TRUE, msg |-> "Refresh token has expired"]
ThrownString == [cls |-> "string", isError |-> FALSE, msg |-> "boom"]

ThrownValues == {NetErr, NetErr2, SessErr, PlainErr, ThrownString}

\* error instanceof Error ? error.message : String(error)
ErrorMessage(e) == e.msg

\* The outcome of a call: it returns a value or it throws one.
Return(v) == [kind |-> "return", val |-> v]
Raise(e) == [kind |-> "raise", err |-> e]
Pending == [kind |-> "pending"]

\* ------------------------------------------------------------ JavaScript values

JStr(s) == [k |-> "str", v |-> s]
JNum(s) == [k |-> "num", v |-> s]     \* the digits of the number
JBool(s) == [k |-> "bool", v |-> s]   \* "true" or "false"
JObj(f) == [k |-> "obj", v |-> f]     \* f: property name -> value

EmptyFields == [key \in {} |-> Undefined]

\* Boolean(v)
Truthy(v) ==
  v \notin {Undefined, Null, JBool("false"), JStr(""), JNum("0")}

\* v.key for v that is not null or undefined (those throw a TypeError).
Get(v, key) ==
  IF v.k = "obj" /\ key \in DOMAIN v.v THEN v.v[key] ELSE Undefined

\* String(v), as a header value or a URL parameter gets it.
ToStr(v) ==
  IF v.k \in {"str", "num", "bool"} THEN v.v
  ELSE IF v.k = "obj" THEN "[object Object]"
  ELSE v.k

\* s.startsWith(prefix)
StartsWith(s, prefix) ==
  Len(s) >= Len(prefix) /\ SubSeq(s, 1, Len(prefix)) = prefix

\* ------------------------------------------------------------ JSON text
\* A JSON text is the sequence of its tokens.  The alphabet has the braces,
\* colon and comma, string literals, numbers and the literals true, false and
\* null; flow states are flat records, so arrays are not in the alphabet.

Punct(c) == [t |-> "punct", v |-> c]
StrTok(s) == [t |-> "string", v |-> s]
NumTok(s) == [t |-> "number", v |-> s]
LitTok(s) == [t |-> "literal", v |-> s]

\* One value as JSON.stringify writes it (flat values).
ValueToken(v) ==
  IF v.k = "str" THEN StrTok(v.v)
  ELSE IF v.k = "num" THEN NumTok(v.v)
  ELSE IF v.k = "bool" THEN LitTok(v.v)
  ELSE LitTok("null")

RECURSIVE MemberTokens(_)
\* The members of an object, given as its <<name, value>> pairs in insertion order.
MemberTokens(pairs) ==
  IF pairs = << >> THEN << >>
  ELSE <<StrTok(pairs[1][1]), Punct(":"), ValueToken(pairs[1][2])>>
         \o (IF Len(pairs) = 1 THEN << >> ELSE <<Punct(",")>>)
         \o MemberTokens(Tail(pairs))

\* JSON.stringify(object)
JSONStringify(pairs) == <<Punct("{")>> \o MemberTokens(pairs) \o <<Punct("}")>>

ParseFail == [ok |-> FALSE]
ParseOk(v, next) == [ok |-> TRUE, val |-> v, next |-> next]

RECURSIVE ParseValue(_, _), ParseMembers(_, _, _)
\* The JSON value that starts at token i.
ParseValue(text, i) ==
  IF i > Len(text) THEN ParseFail
  ELSE IF text[i].t = "string" THEN ParseOk(JStr(text[i].v), i + 1)
  ELSE IF text[i].t = "number" THEN ParseOk(JNum(text[i].v), i + 1)
  ELSE IF text[i].t = "literal"
  THEN ParseOk(IF text[i].v = "null" THEN Null ELSE JBool(text[i].v), i + 1)
  ELSE IF text[i] = Punct("{")
  THEN IF i + 1 <= Len(text) /\ text[i + 1] = Punct("}")
       THEN ParseOk(JObj(EmptyFields), i + 2)
       ELSE ParseMembers(text, i + 1, EmptyFields)
  ELSE ParseFail

\* name : value, then a comma and more members, or the closing brace.
ParseMembers(text, i, acc) ==
  IF i + 1 > Len(text) \/ text[i].t # "string" \/ text[i + 1] # Punct(":")
  THEN ParseFail
  ELSE LET r == ParseValue(text, i + 2) IN
       IF ~r.ok THEN ParseFail
       ELSE LET name == text[i].v
                acc2 == [key \in DOMAIN acc \cup {name} |->
                           IF key = name THEN r.val ELSE acc[key]]
            IN IF r.next > Len(text) THEN ParseFail
               ELSE IF text[r.next] = Punct("}") THEN ParseOk(JObj(acc2), r.next + 1)
               ELSE IF text[r.next] = Punct(",") THEN ParseMembers(text, r.next + 1, acc2)
               ELSE ParseFail

\* JSON.parse(text): the value, or a SyntaxError (ok = FALSE).
JSONParse(text) ==
  LET r == ParseValue(text, 1) IN
  IF r.ok /\ r.next = Len(text) + 1 THEN [ok |-> TRUE, val |-> r.val] ELSE ParseFail

\* --------------------------------------------------------------- flow state

Handles == {"alice.test"}

\* Date.now()
Now == JNum("1700000000000")

\* The OAuthState handleLogin builds: handle and timestamp, then redirectPath,
\* mobile and pwa when set, in this order.  redirect is the validated path or
\* Undefined.
\* Mutant of LoginState: the pwa flag is recorded as mobile and the reverse.
LoginState_FlagsSwapped(handle, redirectPath, mobile, pwa) ==
  <<<<"handle", JStr(handle)>>, <<"timestamp", Now>>>>
    \o (IF redirectPath # Undefined THEN <<<<"redirectPath", redirectPath>>>> ELSE << >>)
    \o (IF pwa THEN <<<<"mobile", JBool("true")>>>> ELSE << >>)
    \o (IF mobile THEN <<<<"pwa", JBool("true")>>>> ELSE << >>)

LoginState(handle, redirectPath, mobile, pwa) ==
  <<<<"handle", JStr(handle)>>, <<"timestamp", Now>>>>
    \o (IF redirectPath # Undefined THEN <<<<"redirectPath", redirectPath>>>> ELSE << >>)
    \o (IF mobile THEN <<<<"mobile", JBool("true")>>>> ELSE << >>)
    \o (IF pwa THEN <<<<"pwa", JBool("true")>>>> ELSE << >>)

\* The state strings handleLogin can hand to authorize.
LoginStateTexts ==
  { JSONStringify(LoginState(h, r, m, w)) :
      h \in Handles, r \in {Undefined, JStr("/dashboard")}, m \in BOOLEAN, w \in BOOLEAN }

\* State strings that parse but that handleLogin never writes: a redirect target
\* that is protocol-relative or absolute, and values that are no flow state.
ForgedStateTexts ==
  { JSONStringify(<<<<"handle", JStr("alice.test")>>, <<"timestamp", Now>>,
                    <<"redirectPath", JStr(r)>>>>) :
      r \in {"//evil.example", "https://evil.example/x"} }
    \cup { <<LitTok("null")>>, <<NumTok("123")>>, <<StrTok("x")>>,
           JSONStringify(<< >>),
           JSONStringify(<<<<"redirectPath", JStr("/dashboard")>>>>),
           JSONStringify(<<<<"pwa", JBool("true")>>>>),
           JSONStringify(<<<<"mobile", JBool("true")>>>>),
           JSONStringify(<<<<"handle", JStr("a?b&did=c#d")>>, <<"mobile", JBool("true")>>,
                           <<"redirectPath", JStr("https://evil.example/x")>>>>) }

\* A state string cut short on the way: the proper prefixes of a full one.
FullStateText == JSONStringify(LoginState("alice.test", JStr("/dashboard"), TRUE, TRUE))

TruncatedStateTexts ==
  { SubSeq(FullStateText, 1, n) : n \in 1..(Len(FullStateText) - 1) }

StateTexts == LoginStateTexts \cup ForgedStateTexts \cup TruncatedStateTexts

\* ------------------------------------------------------------------ state

VARIABLES
  storage,      \* the storage backend: key -> stored record or NoRecord
  sessionTtl,   \* config.sessionTtl
  mobileScheme, \* config.mobileScheme (Undefined when not configured)
  scope,        \* config.scope of the route handlers (Undefined when not given)
  instance,     \* how the handlers were built, and what createATProtoOAuth gave
  pc,           \* per invocation: the await it is suspended at
  op,           \* per invocation: the public operation that was called
  arg,          \* per invocation: the operation's argument (request or did)
  loc,          \* per invocation: its local variables
  out,          \* per invocation: what the operation gave its caller
  calls,        \* per invocation: the collaborator calls it has issued
  started,      \* invocations started so far
  snapshot      \* per invocation: the storage as it was when the invocation began

vars ==
  <<storage, sessionTtl, mobileScheme, scope, instance, pc, op, arg, loc, out, calls, started, snapshot>>

\* ------------------------------------------------------------ collaborators

\* oauthClient.restore(did): a session for did, null, or a throw.
RestoreOutcomes(d) ==
  {Return(Session(d, t)) : t \in Tokens} \cup {Return(Null)}
    \cup {Raise(e) : e \in ThrownValues}

\* storage.set / storage.delete: the promise resolves or rejects.
StorageOutcomes == {"ok", "throws"}

StorageErr == [cls |-> "Error", isError |-> TRUE, msg |-> "Storage delete failed"]

\* The cookie a request carries: none, one that does not unseal, or one the
\* cookie manager sealed for a subject.
Cookies ==
  {[k |-> "none"], [k |-> "garbage"]} \cup {[k |-> "sealed", did |-> d] : d \in DIDs}

\* The Set-Cookie value the cookie manager makes for a subject: on createSession
\* (fresh) and on getSessionFromRequest (refreshed, sliding the expiry).
SetCookie(d, how) == [k |-> "set-cookie", did |-> d, how |-> how]

CookieError(t) == [type |-> t, message |-> "cookie manager: " \o t]

\* sessionManager.getSessionFromRequest(request): {data?, setCookieHeader?, error?}
\* or a throw.
SessionResult(data, hdr, err) == [data |-> data, setCookieHeader |-> hdr, error |-> err]

SessionResults(cookie) ==
  IF cookie.k = "sealed"
  THEN { SessionResult([did |-> cookie.did], SetCookie(cookie.did, "refreshed"), Undefined),
         SessionResult([did |-> cookie.did], Undefined, Undefined),
         SessionResult(Undefined, Undefined, CookieError("SESSION_EXPIRED")) }
  ELSE IF cookie.k = "garbage"
  THEN { SessionResult(Undefined, Undefined, CookieError("INVALID_COOKIE")),
         SessionResult(Undefined, Undefined, CookieError("UNKNOWN")),
         SessionResult([did |-> ""], Undefined, Undefined) }
  ELSE { SessionResult(Undefined, Undefined, CookieError("NO_COOKIE")),
         SessionResult(Undefined, Undefined, Undefined) }

CookieManagerOutcomes(cookie) ==
  {Return(sr) : sr \in SessionResults(cookie)} \cup {Raise(PlainErr)}

\* ------------------------------------------------------------------ storage

\* Mutant of StorageDelete: the delete clears the whole store.
StorageDelete_Everything(st, key) == [k \in DOMAIN st |-> NoRecord]

\* storage.delete(key)
StorageDelete(st, key) == [st EXCEPT ![key] = NoRecord]

StorageSet_WithoutTtl(st, key, value, ttl) ==
  [st EXCEPT ![key] = [k |-> "record", value |-> value, ttl |-> 0]]

\* storage.set(key, value, {ttl})
StorageSet(st, key, value, ttl) ==
  [st EXCEPT ![key] = [k |-> "record", value |-> value, ttl |-> ttl]]

\* A collaborator call as an invocation issued it.
Call(fn, key, result) == [fn |-> fn, key |-> key, result |-> result]

\* ------------------------------------------------------------------ locals

LocInit ==
  [ did |-> "",                 \* the subject the invocation works for
    sessionResult |-> Pending,  \* what sessionManager.getSessionFromRequest gave
    restore |-> Pending,        \* what oauthClient.restore gave
    store |-> Pending,          \* what getOAuthSession gave its caller
    cleanup |-> "none",         \* what the clean-up storage.delete gave
    state |-> Undefined,        \* handleCallback: the parsed state parameter
    session |-> Null,           \* handleCallback: the session the exchange gave
    exchange |-> Pending,       \* handleCallback: what oauthClient.callback gave
    authorize |-> Pending,      \* handleLogin: what oauthClient.authorize gave
    stateText |-> << >>,        \* handleLogin: the state string given to authorize
    options |-> Undefined,      \* handleLogin: the options given to authorize
    intended |-> Pending,       \* handleLogin: what authorize gives when its logging is harmless
    setCookieHeader |-> Undefined ]  \* handleCallback: the minted session cookie

\* Handlers and session store built directly (createRouteHandlers, new
\* OAuthSessions) around collaborators of the caller's own, as the tests do.
Standalone == [by |-> "createRouteHandlers"]

Init ==
  /\ storage = [key \in Keys |-> NoRecord]
  /\ sessionTtl \in {604800}
  /\ mobileScheme \in {Undefined, [k |-> "str", v |-> "app://auth-callback"]}
  /\ scope = Undefined
  /\ instance = Standalone
  /\ pc = [p \in Procs |-> "idle"]
  /\ op = [p \in Procs |-> "none"]
  /\ arg = [p \in Procs |-> Undefined]
  /\ loc = [p \in Procs |-> LocInit]
  /\ out = [p \in Procs |-> Pending]
  /\ calls = [p \in Procs |-> << >>]
  /\ started = 0
  /\ snapshot = [p \in Procs |-> [key \in Keys |-> NoRecord]]

\* A caller invokes a public operation on process p: the invocation runs to its
\* first await (at) or, when it returns before any await, to its result.
Begin(p, operation, argument, at, locals, result) ==
  /\ pc[p] \in {"idle", "done"}
  /\ started' = started + 1
  /\ pc' = [pc EXCEPT ![p] = at]
  /\ op' = [op EXCEPT ![p] = operation]
  /\ arg' = [arg EXCEPT ![p] = argument]
  /\ loc' = [loc EXCEPT ![p] = locals]
  /\ out' = [out EXCEPT ![p] = result]
  /\ calls' = [calls EXCEPT ![p] = << >>]
  /\ snapshot' = [snapshot EXCEPT ![p] = storage]
  /\ UNCHANGED <<storage, sessionTtl, mobileScheme, scope, instance>>

\* ------------------------------------------- routes.ts getSessionFromRequest

\* Mutant of HasDid: only `data` is looked at, not `data.did`.
HasDid_DataOnly(sr) == sr.data # Undefined

\* !sessionResult.data?.did
HasDid(sr) == sr.data # Undefined /\ sr.data.did # ""

\* Mutant of GsfrNoSubject: no default error when the cookie manager names none.
GsfrNoSubject_NoDefault(sr) ==
  [ session |-> Null,
    setCookieHeader |-> Undefined,
    error |-> IF sr.error # Undefined
              THEN [type |-> sr.error.type, message |-> sr.error.message]
              ELSE Undefined ]

\* The result when the cookie yields no subject.
GsfrNoSubject(sr) ==
  [ session |-> Null,
    setCookieHeader |-> Undefined,
    error |-> IF sr.error # Undefined
              THEN [type |-> sr.error.type, message |-> sr.error.message]
              ELSE [type |-> "NO_COOKIE", message |-> "No session found"] ]

\* Mutant of GsfrAfterRestore: the catch block reports the failure as an
\* expired session.
GsfrAfterRestore_CatchAsExpired(sr, g) ==
  IF g.kind = "raise" \/ g.val = Null
  THEN [ session |-> Null,
         setCookieHeader |-> sr.setCookieHeader,
         error |-> [ type |-> "SESSION_EXPIRED",
                     message |-> "OAuth session not found in storage" ] ]
  ELSE [ session |-> g.val,
         setCookieHeader |-> sr.setCookieHeader,
         error |-> Undefined ]

\* Mutant of GsfrAfterRestore: the null-restore result leaves out the
\* refreshed cookie header.
GsfrAfterRestore_NoHeaderOnNull(sr, g) ==
  IF g.kind = "raise"
  THEN [ session |-> Null,
         setCookieHeader |-> sr.setCookieHeader,
         error |-> [ type |-> "OAUTH_ERROR",
                     message |-> IF g.err.isError THEN g.err.msg
                                 ELSE "OAuth session restore failed",
                     details |-> g.err ] ]
  ELSE IF g.val = Null
  THEN [ session |-> Null,
         setCookieHeader |-> Undefined,
         error |-> [ type |-> "SESSION_EXPIRED",
                     message |-> "OAuth session not found in storage" ] ]
  ELSE [ session |-> g.val,
         setCookieHeader |-> sr.setCookieHeader,
         error |-> Undefined ]

\* Mutant of GsfrAfterRestore: a restored session is not handed on.
GsfrAfterRestore_SessionDropped(sr, g) ==
  IF g.kind = "raise"
  THEN [ session |-> Null,
         setCookieHeader |-> sr.setCookieHeader,
         error |-> [ type |-> "OAUTH_ERROR",
                     message |-> IF g.err.isError THEN g.err.msg
                                 ELSE "OAuth session restore failed",
                     details |-> g.err ] ]
  ELSE [ session |-> Null,
         setCookieHeader |-> sr.setCookieHeader,
         error |-> [ type |-> "SESSION_EXPIRED",
                     message |-> "OAuth session not found in storage" ] ]

\* The try/catch around oauthSessions.getOAuthSession: g is what the store gave.
GsfrAfterRestore(sr, g) ==
  IF g.kind = "raise"
  THEN [ session |-> Null,
         setCookieHeader |-> sr.setCookieHeader,
         error |-> [ type |-> "OAUTH_ERROR",
                     message |-> IF g.err.isError THEN g.err.msg
                                 ELSE "OAuth session restore failed",
                     details |-> g.err ] ]
  ELSE IF g.val = Null
  THEN [ session |-> Null,
         setCookieHeader |-> sr.setCookieHeader,
         error |-> [ type |-> "SESSION_EXPIRED",
                     message |-> "OAuth session not found in storage" ] ]
  ELSE [ session |-> g.val,
         setCookieHeader |-> sr.setCookieHeader,
         error |-> Undefined ]

\* ------------------------------------------- sessions.ts OAuthSessions

\* Mutant of IsNetworkError: no error is classified as transient.
IsNetworkError_Never(e) == FALSE

\* Mutant of IsNetworkError: classification by message instead of by class.
IsNetworkError_ByMessage(e) == e.msg = "Connection refused"

\* error instanceof NetworkError
IsNetworkError(e) == e.cls = "NetworkError"

\* getOAuthSession hands g to its caller: the caller of the store, or the
\* rest of getSessionFromRequest, which runs to its return without an await.
GosComplete(p, g) ==
  /\ pc' = [pc EXCEPT ![p] = "done"]
  /\ out' = [out EXCEPT ![p] =
               IF op[p] = "getOAuthSession" THEN g
               ELSE Return(GsfrAfterRestore(loc[p].sessionResult.val, g))]

\* sessions.getOAuthSession(did) is called, for a subject of dids.
StartGetOAuthSessionWith(p, dids) ==
  \E d \in dids :
    Begin(p, "getOAuthSession", [did |-> d], "gos_restore",
          [LocInit EXCEPT !.did = d], Pending)

\* sessions.getOAuthSession(did) is called.
StartGetOAuthSession(p) ==
  /\ instance = Standalone
  /\ started < MaxRequests
  /\ StartGetOAuthSessionWith(p, DIDs)

\* restore(did) of the OAuth client createATProtoOAuth builds reads the
\* instance's own storage (oauth.ts hands it config.storage): with no record
\* under session:<did> it finds no session, and gives null or a session error.
\* A client of the caller's own can give anything.
RestoreOutcomesAt(st, d) ==
  IF instance.by = "createATProtoOAuth" /\ st[SessionKey(d)] = NoRecord
  THEN {Return(Null), Raise(SessErr)}
  ELSE RestoreOutcomes(d)

GosRestore_CleanupOnNull(p) ==
  /\ pc[p] = "gos_restore"
  /\ \E r \in RestoreOutcomesAt(storage, loc[p].did) :
       /\ calls' = [calls EXCEPT ![p] = Append(@, Call("restore", loc[p].did, r.kind))]
       /\ IF (r.kind = "return" /\ r.val # Null) \/ (r.kind = "raise" /\ IsNetworkError(r.err))
          THEN /\ loc' = [loc EXCEPT ![p].restore = r, ![p].store = r]
               /\ GosComplete(p, r)
          ELSE /\ loc' = [loc EXCEPT ![p].restore = r]
               /\ pc' = [pc EXCEPT ![p] = "gos_cleanup"]
               /\ out' = out
  /\ UNCHANGED <<storage, sessionTtl, mobileScheme, scope, instance, op, arg, started, snapshot>>

\* Mutant of GosRestore: a restored session is written back to storage.
GosRestore_WriteBack(p) ==
  /\ pc[p] = "gos_restore"
  /\ \E r \in RestoreOutcomesAt(storage, loc[p].did) :
       IF r.kind = "return" /\ r.val # Null
       THEN /\ calls' = [calls EXCEPT ![p] =
                           @ \o << Call("restore", loc[p].did, r.kind),
                                   Call("storage.set", SessionKey(loc[p].did), "ok") >>]
            /\ storage' = StorageSet(storage, SessionKey(loc[p].did), ToJSON(r.val), sessionTtl)
            /\ loc' = [loc EXCEPT ![p].restore = r, ![p].store = r]
            /\ GosComplete(p, r)
       ELSE /\ calls' = [calls EXCEPT ![p] = Append(@, Call("restore", loc[p].did, r.kind))]
            /\ storage' = storage
            /\ IF r.kind = "return" \/ IsNetworkError(r.err)
               THEN /\ loc' = [loc EXCEPT ![p].restore = r, ![p].store = r]
                    /\ GosComplete(p, r)
               ELSE /\ loc' = [loc EXCEPT ![p].restore = r]
                    /\ pc' = [pc EXCEPT ![p] = "gos_cleanup"]
                    /\ out' = out
  /\ UNCHANGED <<sessionTtl, mobileScheme, scope, instance, op, arg, started, snapshot>>

\* await this.oauthClient.restore(did), and the code up to the next await.
GosRestore(p) ==
  /\ pc[p] = "gos_restore"
  /\ \E r \in RestoreOutcomesAt(storage, loc[p].did) :
       /\ calls' = [calls EXCEPT ![p] = Append(@, Call("restore", loc[p].did, r.kind))]
       /\ IF r.kind = "return" \/ IsNetworkError(r.err)
          THEN /\ loc' = [loc EXCEPT ![p].restore = r, ![p].store = r]
               /\ GosComplete(p, r)
          ELSE /\ loc' = [loc EXCEPT ![p].restore = r]
               /\ pc' = [pc EXCEPT ![p] = "gos_cleanup"]
               /\ out' = out
  /\ UNCHANGED <<storage, sessionTtl, mobileScheme, scope, instance, op, arg, started, snapshot>>

\* Mutant of GosCleanup: null is returned without the clean-up delete.
GosCleanup_SkipDelete(p) ==
  /\ pc[p] = "gos_cleanup"
  /\ loc' = [loc EXCEPT ![p].store = Return(Null)]
  /\ GosComplete(p, Return(Null))
  /\ UNCHANGED <<storage, calls, sessionTtl, mobileScheme, scope, instance, op, arg, started, snapshot>>

\* Mutant of GosCleanup: the delete is not wrapped in its own try/catch, so its
\* failure reaches the caller.
GosCleanup_Propagates(p) ==
  /\ pc[p] = "gos_cleanup"
  /\ \E o \in StorageOutcomes :
       /\ storage' = IF o = "ok" THEN StorageDelete(storage, SessionKey(loc[p].did))
                     ELSE storage
       /\ calls' = [calls EXCEPT ![p] =
                      Append(@, Call("storage.delete", SessionKey(loc[p].did), o))]
       /\ LET g == IF o = "ok" THEN Return(Null) ELSE Raise(StorageErr)
          IN /\ loc' = [loc EXCEPT ![p].cleanup = o, ![p].store = g]
             /\ GosComplete(p, g)
  /\ UNCHANGED <<sessionTtl, mobileScheme, scope, instance, op, arg, started, snapshot>>

\* await this.storage.delete(`session:${did}`) inside its own try/catch, then
\* return null.
GosCleanup(p) ==
  /\ pc[p] = "gos_cleanup"
  /\ \E o \in StorageOutcomes :
       /\ storage' = IF o = "ok" THEN StorageDelete(storage, SessionKey(loc[p].did))
                     ELSE storage
       /\ loc' = [loc EXCEPT ![p].cleanup = o, ![p].store = Return(Null)]
       /\ calls' = [calls EXCEPT ![p] =
                      Append(@, Call("storage.delete", SessionKey(loc[p].did), o))]
  /\ GosComplete(p, Return(Null))
  /\ UNCHANGED <<sessionTtl, mobileScheme, scope, instance, op, arg, started, snapshot>>

\* getSessionFromRequest(request) is called.
StartGetSessionFromRequestWith(p, cookies) ==
  \E c \in cookies :
    Begin(p, "getSessionFromRequest", [cookie |-> c], "gsfr_cookie", LocInit, Pending)

\* getSessionFromRequest(request) is called.
StartGetSessionFromRequest(p) ==
  /\ instance = Standalone
  /\ started < MaxRequests
  /\ StartGetSessionFromRequestWith(p, Cookies)

\* sessions.saveOAuthSession(session) is called.
StartSaveOAuthSessionWith(p, sessions) ==
  \E x \in sessions :
    Begin(p, "saveOAuthSession", [session |-> x], "sos_set",
          [LocInit EXCEPT !.did = x.did, !.session = x], Pending)

\* await this.storage.set(`session:${session.did}`, session.toJSON(), {ttl});
\* a rejection goes to the caller.
SosSet(p) ==
  /\ pc[p] = "sos_set"
  /\ \E o \in StorageOutcomes :
       /\ calls' = [calls EXCEPT ![p] =
                      Append(@, Call("storage.set", SessionKey(loc[p].did), o))]
       /\ storage' = IF o = "ok"
                     THEN StorageSet(storage, SessionKey(loc[p].did),
                                     ToJSON(loc[p].session), sessionTtl)
                     ELSE storage
       /\ out' = [out EXCEPT ![p] = IF o = "ok" THEN Return(Undefined) ELSE Raise(StorageErr)]
       /\ loc' = [loc EXCEPT ![p].store = o]
  /\ pc' = [pc EXCEPT ![p] = "done"]
  /\ UNCHANGED <<sessionTtl, mobileScheme, scope, instance, op, arg, started, snapshot>>

\* await this.storage.delete(`session:${did}`); a rejection goes to the caller.
DosDelete(p) ==
  /\ pc[p] = "dos_delete"
  /\ \E o \in StorageOutcomes :
       /\ calls' = [calls EXCEPT ![p] =
                      Append(@, Call("storage.delete", SessionKey(loc[p].did), o))]
       /\ storage' = IF o = "ok" THEN StorageDelete(storage, SessionKey(loc[p].did))
                     ELSE storage
       /\ out' = [out EXCEPT ![p] = IF o = "ok" THEN Return(Undefined) ELSE Raise(StorageErr)]
       /\ loc' = [loc EXCEPT ![p].cleanup = o]
  /\ pc' = [pc EXCEPT ![p] = "done"]
  /\ UNCHANGED <<sessionTtl, mobileScheme, scope, instance, op, arg, started, snapshot>>

\* await sessionManager.getSessionFromRequest(request), outside any try.
GsfrCookie(p) ==
  /\ pc[p] = "gsfr_cookie"
  /\ \E c \in CookieManagerOutcomes(arg[p].cookie) :
       /\ calls' = [calls EXCEPT ![p] = Append(@, Call("cookie.read", <<>>, c.kind))]
       /\ IF c.kind = "raise"
          THEN /\ pc' = [pc EXCEPT ![p] = "done"]
               /\ out' = [out EXCEPT ![p] = c]
               /\ loc' = [loc EXCEPT ![p].sessionResult = c]
          ELSE IF ~HasDid(c.val)
          THEN /\ pc' = [pc EXCEPT ![p] = "done"]
               /\ out' = [out EXCEPT ![p] = Return(GsfrNoSubject(c.val))]
               /\ loc' = [loc EXCEPT ![p].sessionResult = c]
          ELSE /\ pc' = [pc EXCEPT ![p] = "gos_restore"]
               /\ out' = out
               /\ loc' = [loc EXCEPT ![p].sessionResult = c,
                                     ![p].did = c.val.data.did]
  /\ UNCHANGED <<storage, sessionTtl, mobileScheme, scope, instance, op, arg, started, snapshot>>

\* ------------------------------------------- routes.ts handleCallback

\* A query parameter: absent (params.get gives null) or a string.
Param(present, v) == [present |-> present, v |-> v]

Missing_AbsentOnly(param, empty) == ~param.present

\* !code, !stateParam
Missing(param, empty) == ~param.present \/ param.v = empty

CodeParams == {Param(FALSE, ""), Param(TRUE, ""), Param(TRUE, "c0de")}

StateParams == {Param(FALSE, << >>), Param(TRUE, << >>)} \cup {Param(TRUE, t) : t \in StateTexts}

\* new Response(body, {status, headers})
Text(s) == [k |-> "text", text |-> s]
NoBody == [k |-> "empty"]
Response(status, body, location, setCookie, contentType) ==
  [ status |-> status, body |-> body, location |-> location,
    setCookie |-> setCookie, contentType |-> contentType ]

\* The PWA completion page: the payload its script stores is did and handle.
PwaPage(did, handle) == [k |-> "html", did |-> did, handle |-> handle]

IssuerMismatch(handle) ==
  [ cls |-> "IssuerMismatchError", isError |-> TRUE,
    msg |-> "Issuer mismatch", handle |-> handle ]

TypeErr ==
  [cls |-> "TypeError", isError |-> TRUE, msg |-> "Cannot read properties of null"]

\* oauthClient.callback(params): {session} or a throw.
CallbackOutcomes ==
  {Return(Session(d, t)) : d \in DIDs, t \in Tokens}
    \cup {Raise(e) : e \in {IssuerMismatch("bob.test"), IssuerMismatch(""),
                            IssuerMismatch("bob.test&mobile=true"),
                            PlainErr, ThrownString}}

\* sessionManager.createSession / sealToken: resolves or rejects.
CookieOutcomes == {"ok", "throws"}

SealedToken(did) == "sealed(" \o did \o ")"

\* The percent-encoding of the characters both encoders escape.
Escaped(c) ==
  IF c = ":" THEN "%3A"
  ELSE IF c = "/" THEN "%2F"
  ELSE IF c = "@" THEN "%40"
  ELSE IF c = "[" THEN "%5B"
  ELSE IF c = "]" THEN "%5D"
  ELSE IF c = "?" THEN "%3F"
  ELSE IF c = "&" THEN "%26"
  ELSE IF c = "=" THEN "%3D"
  ELSE IF c = "#" THEN "%23"
  ELSE IF c = "+" THEN "%2B"
  ELSE c

RECURSIVE Encode(_)
\* URLSearchParams.set, serialized: the form encoding, which also escapes the
\* parentheses and writes a space as "+".
Encode(s) ==
  IF Len(s) = 0 THEN ""
  ELSE LET c == SubSeq(s, 1, 1)
           e == IF c = "(" THEN "%28"
                ELSE IF c = ")" THEN "%29"
                ELSE IF c = " " THEN "+"
                ELSE Escaped(c)
       IN e \o Encode(SubSeq(s, 2, Len(s)))

RECURSIVE EncodeURIComponent(_)
\* encodeURIComponent(s): parentheses stay, a space is "%20".
EncodeURIComponent(s) ==
  IF Len(s) = 0 THEN ""
  ELSE LET c == SubSeq(s, 1, 1)
           e == IF c = " " THEN "%20" ELSE Escaped(c)
       IN e \o EncodeURIComponent(SubSeq(s, 2, Len(s)))

CbCatch_AnyMismatch(e) ==
  IF e.cls = "IssuerMismatchError"
  THEN Response(302, NoBody, JStr("/login?handle=" \o EncodeURIComponent(e.handle)), Undefined, Undefined)
  ELSE Response(400,
                Text("OAuth callback failed: " \o ErrorMessage(e)),
                Undefined, Undefined, Undefined)

\* Mutant of CbCatch: recovery is given up once three invocations have begun.
CbCatch_CountsRounds(e) ==
  IF e.cls = "IssuerMismatchError" /\ e.handle # "" /\ started < 3
  THEN Response(302, NoBody, JStr("/login?handle=" \o EncodeURIComponent(e.handle)), Undefined, Undefined)
  ELSE Response(400,
                Text("OAuth callback failed: " \o ErrorMessage(e)),
                Undefined, Undefined, Undefined)

\* Mutant of CbCatch: the recovered handle goes into the login URL as it is.
CbCatch_RawHandle(e) ==
  IF e.cls = "IssuerMismatchError" /\ e.handle # ""
  THEN Response(302, NoBody, JStr("/login?handle=" \o e.handle), Undefined, Undefined)
  ELSE Response(400,
                Text("OAuth callback failed: " \o ErrorMessage(e)),
                Undefined, Undefined, Undefined)

\* The catch block of handleCallback.
CbCatch(e) ==
  IF e.cls = "IssuerMismatchError" /\ e.handle # ""
  THEN Response(302, NoBody, JStr("/login?handle=" \o EncodeURIComponent(e.handle)), Undefined, Undefined)
  ELSE Response(400,
                Text("OAuth callback failed: " \o ErrorMessage(e)),
                Undefined, Undefined, Undefined)

\* const redirectPath = state.redirectPath || "/"
RedirectPath(state) ==
  IF Truthy(Get(state, "redirectPath")) THEN Get(state, "redirectPath") ELSE JStr("/")

\* The web response: 302 to the stored path or home.
WebResponse(state, setCookieHeader) ==
  Response(302, NoBody, JStr(ToStr(RedirectPath(state))), setCookieHeader, Undefined)

\* Mutant of PwaResponse: the page's script is handed the session cookie too.
PwaResponse_CookieInPage(state, did, setCookieHeader) ==
  Response(200, [k |-> "html", did |-> did, handle |-> ToStr(Get(state, "handle")),
                 cookie |-> setCookieHeader],
           Undefined, setCookieHeader, JStr("text/html; charset=utf-8"))

\* The PWA response: the HTML page.
PwaResponse(state, did, setCookieHeader) ==
  Response(200, PwaPage(did, ToStr(Get(state, "handle"))), Undefined,
           setCookieHeader, JStr("text/html; charset=utf-8"))

MobileResponse_TargetFromState(state, did, sealedToken, setCookieHeader) ==
  Response(302, NoBody,
           JStr(ToStr(RedirectPath(state)) \o "?session_token=" \o Encode(sealedToken)
                  \o "&did=" \o Encode(did)
                  \o "&handle=" \o Encode(ToStr(Get(state, "handle")))),
           setCookieHeader, Undefined)

\* The mobile response: 302 to the configured scheme.
MobileResponse(state, did, sealedToken, setCookieHeader) ==
  Response(302, NoBody,
           JStr(mobileScheme.v \o "?session_token=" \o Encode(sealedToken)
                  \o "&did=" \o Encode(did)
                  \o "&handle=" \o Encode(ToStr(Get(state, "handle")))),
           setCookieHeader, Undefined)

DeliveryMode_PwaFirst(state, scheme) ==
  IF Truthy(Get(state, "pwa")) THEN "pwa"
  ELSE IF Truthy(Get(state, "mobile")) /\ Truthy(scheme) THEN "mobile"
  ELSE "web"

\* The order of the mode tests after the cookie is minted: mobile, then PWA,
\* then web.
DeliveryMode(state, scheme) ==
  IF Truthy(Get(state, "mobile")) /\ Truthy(scheme) THEN "mobile"
  ELSE IF Truthy(Get(state, "pwa")) THEN "pwa"
  ELSE "web"

\* The code of handleCallback before its first await: the parameter checks and
\* JSON.parse(stateParam).
CbEntry(a) ==
  IF Missing(a.code, "") \/ Missing(a.state, << >>)
  THEN [ at |-> "done", state |-> Undefined,
         out |-> Return(Response(400, Text("Missing code or state parameters"),
                                 Undefined, Undefined, Undefined)) ]
  ELSE IF ~JSONParse(a.state.v).ok
  THEN [ at |-> "done", state |-> Undefined,
         out |-> Return(Response(400, Text("Invalid state parameter"),
                                 Undefined, Undefined, Undefined)) ]
  ELSE [ at |-> "cb_exchange", state |-> JSONParse(a.state.v).val, out |-> Pending ]

\* handleCallback(request) is called, the request's parameters drawn from the
\* given sets.
StartHandleCallbackWith(p, codes, states) ==
  \E c \in codes, s \in states :
    LET a == [code |-> c, state |-> s]
        e == CbEntry(a)
    IN Begin(p, "handleCallback", a, e.at, [LocInit EXCEPT !.state = e.state], e.out)

\* handleCallback(request) is called.
StartHandleCallback(p) ==
  /\ instance = Standalone
  /\ started < MaxRequests
  /\ StartHandleCallbackWith(p, CodeParams, StateParams)

\* The invocation ends with response r.
CbDone(p, r) ==
  /\ pc' = [pc EXCEPT ![p] = "done"]
  /\ out' = [out EXCEPT ![p] = Return(r)]

\* await oauthClient.callback(params)
CbExchange(p) ==
  /\ pc[p] = "cb_exchange"
  /\ \E r \in CallbackOutcomes :
       /\ calls' = [calls EXCEPT ![p] = Append(@, Call("callback", << >>, r.kind))]
       /\ IF r.kind = "return"
          THEN /\ loc' = [loc EXCEPT ![p].session = r.val, ![p].did = r.val.did,
                                     ![p].exchange = r]
               /\ pc' = [pc EXCEPT ![p] = "cb_store"]
               /\ out' = out
          ELSE /\ loc' = [loc EXCEPT ![p].exchange = r]
               /\ CbDone(p, CbCatch(r.err))
  /\ UNCHANGED <<storage, sessionTtl, mobileScheme, scope, instance, op, arg, started, snapshot>>

\* Mutant of CbStore: the session object is stored as it is, not serialized.
CbStore_Unserialized(p) ==
  /\ pc[p] = "cb_store"
  /\ \E o \in StorageOutcomes :
       /\ calls' = [calls EXCEPT ![p] =
                      Append(@, Call("storage.set", SessionKey(loc[p].did), o))]
       /\ IF o = "ok"
          THEN /\ storage' = StorageSet(storage, SessionKey(loc[p].did),
                                        loc[p].session, sessionTtl)
               /\ pc' = [pc EXCEPT ![p] = "cb_cookie"]
               /\ out' = out
          ELSE /\ storage' = storage
               /\ CbDone(p, CbCatch(StorageErr))
  /\ UNCHANGED <<sessionTtl, mobileScheme, scope, instance, op, arg, loc, started, snapshot>>

\* await storage.set(`session:${did}`, oauthSession.toJSON(), {ttl: sessionTtl})
CbStore(p) ==
  /\ pc[p] = "cb_store"
  /\ \E o \in StorageOutcomes :
       /\ calls' = [calls EXCEPT ![p] =
                      Append(@, Call("storage.set", SessionKey(loc[p].did), o))]
       /\ IF o = "ok"
          THEN /\ storage' = StorageSet(storage, SessionKey(loc[p].did),
                                        ToJSON(loc[p].session), sessionTtl)
               /\ pc' = [pc EXCEPT ![p] = "cb_cookie"]
               /\ out' = out
          ELSE /\ storage' = storage
               /\ CbDone(p, CbCatch(StorageErr))
  /\ UNCHANGED <<sessionTtl, mobileScheme, scope, instance, op, arg, loc, started, snapshot>>

\* await sessionManager.createSession({did, ...}), then the dispatch by mode up
\* to the next await (sealToken) or to the response.
CbCookie(p) ==
  /\ pc[p] = "cb_cookie"
  /\ \E o \in CookieOutcomes :
       LET hdr == SetCookie(loc[p].did, "fresh")
           st == loc[p].state
       IN /\ calls' = [calls EXCEPT ![p] =
                         Append(@, Call("cookie.create", loc[p].did, o))]
          /\ IF o = "throws"
             THEN /\ loc' = loc
                  /\ CbDone(p, CbCatch(PlainErr))
             ELSE /\ loc' = [loc EXCEPT ![p].setCookieHeader = hdr]
                  /\ IF st = Null
                     THEN CbDone(p, CbCatch(TypeErr))
                     ELSE IF DeliveryMode(st, mobileScheme) = "mobile"
                     THEN /\ pc' = [pc EXCEPT ![p] = "cb_seal"]
                          /\ out' = out
                     ELSE IF DeliveryMode(st, mobileScheme) = "pwa"
                     THEN CbDone(p, PwaResponse(st, loc[p].did, hdr))
                     ELSE CbDone(p, WebResponse(st, hdr))
  /\ UNCHANGED <<storage, sessionTtl, mobileScheme, scope, instance, op, arg, started, snapshot>>

\* await sessionManager.sealToken({did}), then the mobile redirect.
CbSeal(p) ==
  /\ pc[p] = "cb_seal"
  /\ \E o \in CookieOutcomes :
       /\ calls' = [calls EXCEPT ![p] = Append(@, Call("cookie.seal", loc[p].did, o))]
       /\ IF o = "throws"
          THEN CbDone(p, CbCatch(PlainErr))
          ELSE CbDone(p, MobileResponse(loc[p].state, loc[p].did,
                                        SealedToken(loc[p].did), loc[p].setCookieHeader))
  /\ UNCHANGED <<storage, sessionTtl, mobileScheme, scope, instance, op, arg, loc, started, snapshot>>

\* ------------------------------------------- client-metadata.ts

\* baseUrl.replace(/\/$/, ""): one trailing slash is removed.
StripTrailingSlash(s) ==
  IF Len(s) > 0 /\ SubSeq(s, Len(s), Len(s)) = "/" THEN SubSeq(s, 1, Len(s) - 1) ELSE s

\* The least position from..Len(s) of s that holds a character of chars, or
\* Len(s) + 1.
FirstOf(s, chars, from) ==
  LET hits == {i \in from..Len(s) : SubSeq(s, i, i) \in chars}
  IN IF hits = {} THEN Len(s) + 1 ELSE CHOOSE i \in hits : \A j \in hits : i <= j

\* The port a scheme implies, which the URL parser drops.
DefaultPort(scheme) ==
  IF scheme = "http" THEN "80" ELSE IF scheme = "https" THEN "443" ELSE ""

\* new URL(s), as far as scheme, hostname and port: scheme "://" authority,
\* the authority ending at the first "/", "?" or "#"; ok is FALSE where the
\* constructor throws.
ParseURL(s) ==
  LET colon == FirstOf(s, {":"}, 1)
      hasScheme == colon > 1 /\ colon + 2 <= Len(s) /\ SubSeq(s, colon, colon + 2) = "://"
      scheme == SubSeq(s, 1, colon - 1)
      from == colon + 3
      to == FirstOf(s, {"/", "?", "#"}, from) - 1
      bracket == from <= to /\ SubSeq(s, from, from) = "["
      hostEnd == IF bracket THEN FirstOf(s, {"]"}, from)
                 ELSE FirstOf(s, {":", "/", "?", "#"}, from) - 1
      rawPort == IF hostEnd + 1 <= to /\ SubSeq(s, hostEnd + 1, hostEnd + 1) = ":"
                 THEN SubSeq(s, hostEnd + 2, to)
                 ELSE ""
  IN IF ~hasScheme \/ from > to \/ hostEnd < from \/ hostEnd > to
     THEN [ok |-> FALSE]
     ELSE [ ok |-> TRUE, scheme |-> scheme,
            hostname |-> SubSeq(s, from, hostEnd),
            port |-> IF rawPort = DefaultPort(scheme) THEN "" ELSE rawPort ]

\* parsed.origin
Origin(u) ==
  u.scheme \o "://" \o u.hostname \o (IF u.port = "" THEN "" ELSE ":" \o u.port)

IsLoopbackUrl_LocalhostOnly(url) ==
  ParseURL(url).ok /\ ParseURL(url).hostname = "localhost"

\* isLoopbackUrl(url)
IsLoopbackUrl(url) ==
  /\ ParseURL(url).ok
  /\ ParseURL(url).hostname \in {"localhost", "127.0.0.1", "[::1]", "::1"}

\* buildLoopbackRedirectUri(baseUrl)
BuildLoopbackRedirectUri(baseUrl) ==
  Origin([ParseURL(baseUrl) EXCEPT !.hostname = "127.0.0.1"]) \o "/oauth/callback"

\* buildLoopbackClientId(redirectUri, scope)
BuildLoopbackClientId(redirectUri, scopeText) ==
  "http://localhost?redirect_uri=" \o Encode(redirectUri) \o "&scope=" \o Encode(scopeText)

DefaultScope == "atproto transition:generic"

\* config.scope || "atproto transition:generic"
ScopeOrDefault(config) ==
  IF Truthy(config.scope) THEN config.scope.v ELSE DefaultScope

\* generateClientMetadata(config): the fields derived from baseUrl and scope.
GenerateClientMetadata(config) ==
  LET baseUrl == StripTrailingSlash(config.baseUrl)
      loopback == IsLoopbackUrl(baseUrl)
      redirectUri == IF loopback THEN BuildLoopbackRedirectUri(baseUrl)
                     ELSE baseUrl \o "/oauth/callback"
      clientId == IF loopback THEN BuildLoopbackClientId(redirectUri, ScopeOrDefault(config))
                  ELSE baseUrl \o "/oauth-client-metadata.json"
  IN [ client_name |-> config.appName,
       client_id |-> clientId,
       client_uri |-> baseUrl,
       redirect_uris |-> <<redirectUri>>,
       scope |-> ScopeOrDefault(config) ]

\* ------------------------------------------- oauth.ts createATProtoOAuth

MinSecretLength == 32

DefaultSessionTtl == 604800

DefaultMobileScheme == "app://auth-callback"

Secret31 == "0123456789abcdef0123456789abcde"
Secret32 == "0123456789abcdef0123456789abcdef"

\* The base URLs a configuration is given.
BaseUrls ==
  { "", "not-a-url",
    "https://myapp.example.com", "https://myapp.example.com/",
    "https://myapp.example.com//", "https://localhost.example.com",
    "http://localhost:8000", "http://localhost:8000/", "http://localhost",
    "http://localhost:80", "http://127.0.0.1:3000", "http://[::1]:8080",
    "https://localhost:8443/app" }

\* ATProtoOAuthConfig: storage is TRUE when a storage is given, logger is
\* Undefined, or names the logger given ("console" has log, debug, info, warn
\* and error).
Configs ==
  [ baseUrl : BaseUrls,
    appName : {"", "Test App"},
    cookieSecret : {"", Secret31, Secret32},
    storage : BOOLEAN,
    scope : {Undefined, JStr("atproto")},
    logger : {Undefined, JStr("console")},
    sessionTtl : {Undefined},
    mobileScheme : {Undefined} ]

ConfigError(msg) == [cls |-> "Error", isError |-> TRUE, msg |-> msg]

ValidateConfig_LongerThanMinimum(config) ==
  IF config.baseUrl = "" THEN Raise(ConfigError("baseUrl is required"))
  ELSE IF config.appName = "" THEN Raise(ConfigError("appName is required"))
  ELSE IF config.cookieSecret = "" THEN Raise(ConfigError("cookieSecret is required"))
  ELSE IF Len(config.cookieSecret) <= MinSecretLength
  THEN Raise(ConfigError("cookieSecret must be at least 32 characters for secure encryption"))
  ELSE IF ~config.storage THEN Raise(ConfigError("storage is required"))
  ELSE Return(Undefined)

\* The checks createATProtoOAuth makes first.
ValidateConfig(config) ==
  IF config.baseUrl = "" THEN Raise(ConfigError("baseUrl is required"))
  ELSE IF config.appName = "" THEN Raise(ConfigError("appName is required"))
  ELSE IF config.cookieSecret = "" THEN Raise(ConfigError("cookieSecret is required"))
  ELSE IF Len(config.cookieSecret) < MinSecretLength
  THEN Raise(ConfigError("cookieSecret must be at least 32 characters for secure encryption"))
  ELSE IF ~config.storage THEN Raise(ConfigError("storage is required"))
  ELSE Return(Undefined)

\* Nothing has been constructed yet.
NotBuilt == [by |-> "nobody"]

\* The methods of the logger the instance keeps: config.logger ?? noopLogger.
LoggerMethods(config) ==
  IF config.logger = Undefined THEN {"debug", "info", "warn", "error"}
  ELSE {"log", "debug", "info", "warn", "error"}

\* The logger methods the adapter handed to the OAuth client calls on it.
AdapterCalls == [debug |-> "log", info |-> "log", warn |-> "warn", error |-> "error"]

\* The config createRouteHandlers gets from createATProtoOAuth: no scope.
RouteHandlersConfig(config) ==
  [ sessionTtl |-> IF config.sessionTtl = Undefined THEN DefaultSessionTtl
                   ELSE config.sessionTtl,
    mobileScheme |-> IF config.mobileScheme = Undefined THEN JStr(DefaultMobileScheme)
                     ELSE config.mobileScheme,
    scope |-> Undefined ]

\* What createATProtoOAuth(config) constructs once the config is valid.
Build(config) ==
  LET baseUrl == StripTrailingSlash(config.baseUrl)
  IN [ by |-> "createATProtoOAuth",
       config |-> config,
       result |-> Return(Undefined),
       built |-> {"OAuthClient", "SessionManager", "OAuthSessions", "routes"},
       clientId |-> baseUrl \o "/oauth-client-metadata.json",
       redirectUri |-> baseUrl \o "/oauth/callback",
       loggerMethods |-> LoggerMethods(config),
       clientMetadata |-> GenerateClientMetadata([config EXCEPT !.baseUrl = baseUrl]) ]

\* createATProtoOAuth(config) threw before constructing anything.
Refused(config, r) ==
  [ by |-> "createATProtoOAuth", config |-> config, result |-> r, built |-> {} ]

\* createATProtoOAuth(config) is called.
CreateATProtoOAuth ==
  /\ instance = NotBuilt
  /\ started = 0
  /\ \E config \in Configs :
       LET v == ValidateConfig(config)
           rc == RouteHandlersConfig(config)
       IN IF v.kind = "raise"
          THEN /\ instance' = Refused(config, v)
               /\ UNCHANGED <<sessionTtl, mobileScheme, scope>>
          ELSE /\ instance' = Build(config)
               /\ sessionTtl' = rc.sessionTtl
               /\ mobileScheme' = rc.mobileScheme
               /\ scope' = rc.scope
  /\ UNCHANGED <<storage, pc, op, arg, loc, out, calls, started, snapshot>>

\* generateClientMetadata(config) is called on its own.
CallGenerateClientMetadata(p) ==
  /\ instance = NotBuilt
  /\ started = 0
  /\ \E config \in Configs :
       Begin(p, "generateClientMetadata", config, "done", LocInit,
             Return(GenerateClientMetadata(config)))

\* ------------------------------------------- routes.ts handleLogin

Letters ==
  { "a", "b", "c", "d", "e", "f", "g", "h", "i", "j", "k", "l", "m",
    "n", "o", "p", "q", "r", "s", "t", "u", "v", "w", "x", "y", "z",
    "A", "B", "C", "D", "E", "F", "G", "H", "I", "J", "K", "L", "M",
    "N", "O", "P", "Q", "R", "S", "T", "U", "V", "W", "X", "Y", "Z" }

Digits == {"0", "1", "2", "3", "4", "5", "6", "7", "8", "9"}

\* The character of s at position i.
CharAt(s, i) == SubSeq(s, i, i)

\* One label of a handle, s[from..to]: 1 to 63 letters, digits or hyphens, no
\* hyphen at either end.
ValidLabel(s, from, to) ==
  /\ from <= to
  /\ to - from + 1 <= 63
  /\ \A i \in from..to : CharAt(s, i) \in Letters \cup Digits \cup {"-"}
  /\ CharAt(s, from) # "-"
  /\ CharAt(s, to) # "-"

IsValidHandle_AcceptAll(s) == TRUE

\* isValidHandle(handle) of @atproto/syntax: at most 253 characters, two or more
\* labels separated by ".", the last label not starting with a digit.
IsValidHandle(s) ==
  LET n == Len(s)
      dots == {i \in 1..n : CharAt(s, i) = "."}
      cuts == {0} \cup dots \cup {n + 1}
  IN /\ n <= 253
     /\ dots # {}
     /\ \A a \in cuts \ {n + 1} :
          LET b == CHOOSE c \in cuts : c > a /\ \A d \in cuts : d > a => c <= d
          IN ValidLabel(s, a + 1, b - 1)
     /\ LET last == CHOOSE a \in dots : \A d \in dots : d <= a
        IN last < n /\ CharAt(s, last + 1) \notin Digits

\* url.searchParams.get("handle")
HandleParams ==
  { Param(FALSE, ""), Param(TRUE, ""), Param(TRUE, "alice.test"),
    Param(TRUE, "invalid@@@handle"), Param(TRUE, "nodots"),
    Param(TRUE, "https://bsky.social"), Param(TRUE, "http://bsky.social") }

\* url.searchParams.get("redirect")
RedirectParams ==
  { Param(FALSE, ""), Param(TRUE, ""), Param(TRUE, "/dashboard"),
    Param(TRUE, "//evil.example") }

\* url.searchParams.get("mobile"), url.searchParams.get("pwa")
FlagParams == {Param(FALSE, ""), Param(TRUE, "true"), Param(TRUE, "1")}

\* url.searchParams.get(name) === "true"
FlagSet(param) == param.present /\ param.v = "true"

ValidatedRedirect_AnySlash(param) ==
  IF param.present /\ param.v # "" /\ StartsWith(param.v, "/")
  THEN JStr(param.v)
  ELSE Undefined

\* The redirect path that goes into the flow state, or Undefined.
ValidatedRedirect(param) ==
  IF param.present /\ param.v # ""
       /\ StartsWith(param.v, "/") /\ ~StartsWith(param.v, "//")
  THEN JStr(param.v)
  ELSE Undefined

\* The authorization URL oauthClient.authorize resolves to.
AuthUrl == "https://auth.example/oauth/authorize"

\* oauthClient.authorize(handle, {state, scope}): a URL or a throw.
AuthorizeOutcomes == {Return(AuthUrl), Raise(PlainErr), Raise(ThrownString)}

LoginCatch_ServerError(e) ==
  Response(500, Text(IF e.isError THEN e.msg ELSE "Couldn't initiate login"),
           Undefined, Undefined, Undefined)

\* The options handleLogin gives to authorize: the state string and the scope
\* of the route handlers' config.
AuthorizeOptions(stateText) == [state |-> stateText, scope |-> scope]

\* The catch block of handleLogin.
LoginCatch(e) ==
  Response(400, Text(IF e.isError THEN e.msg ELSE "Couldn't initiate login"),
           Undefined, Undefined, Undefined)

\* The code of handleLogin before its await: the checks of the handle and the
\* flow state it builds.
LoginEntry(a) ==
  IF ~a.handle.present \/ a.handle.v = ""
  THEN [ at |-> "done", stateText |-> << >>,
         out |-> Return(Response(400, Text("Invalid handle"),
                                 Undefined, Undefined, Undefined)) ]
  ELSE IF ~StartsWith(a.handle.v, "https://") /\ ~IsValidHandle(a.handle.v)
  THEN [ at |-> "done", stateText |-> << >>,
         out |-> Return(Response(400, Text("Invalid handle format"),
                                 Undefined, Undefined, Undefined)) ]
  ELSE [ at |-> "login_authorize",
         stateText |-> JSONStringify(LoginState(a.handle.v, ValidatedRedirect(a.redirect),
                                                FlagSet(a.mobile), FlagSet(a.pwa))),
         out |-> Pending ]

\* handleLogin(request) is called, the request's parameters drawn from the
\* given sets.
StartHandleLoginWith(p, handles, redirects, flags) ==
  \E h \in handles, r \in redirects, m \in flags, w \in flags :
    LET a == [handle |-> h, redirect |-> r, mobile |-> m, pwa |-> w]
        e == LoginEntry(a)
    IN Begin(p, "handleLogin", a, e.at, [LocInit EXCEPT !.stateText = e.stateText], e.out)

\* handleLogin(request) is called.
StartHandleLogin(p) ==
  /\ instance = Standalone
  /\ started < MaxRequests
  /\ StartHandleLoginWith(p, HandleParams, RedirectParams, FlagParams)

\* handleLogin(request) is called on an instance createATProtoOAuth built, for
\* a plain web login.
StartPlainLogin(p) ==
  /\ instance.by = "createATProtoOAuth"
  /\ "routes" \in instance.built
  /\ started < MaxRequests
  /\ StartHandleLoginWith(p, {Param(TRUE, "alice.test")}, {Param(FALSE, "")},
                          {Param(FALSE, "")})

LogTypeErr ==
  [cls |-> "TypeError", isError |-> TRUE, msg |-> "logger.log is not a function"]

\* The level the OAuth client logs at while it serves a call, if it logs.
ClientLogLevels == {"none", "debug", "info", "warn", "error"}

\* What a call of the OAuth client gives when the client logs at level on the
\* way: the adapter createATProtoOAuth handed to it forwards to a method of the
\* instance's logger, and calling a method the logger lacks throws.
Logged(r, level) ==
  IF /\ instance.by = "createATProtoOAuth"
     /\ level # "none"
     /\ AdapterCalls[level] \notin instance.loggerMethods
  THEN Raise(LogTypeErr)
  ELSE r

\* await oauthClient.authorize(handle, {state: JSON.stringify(state), ...}), then
\* the redirect, or the catch block.
LoginAuthorize(p) ==
  /\ pc[p] = "login_authorize"
  /\ \E given \in AuthorizeOutcomes, level \in ClientLogLevels :
      LET r == Logged(given, level)
      IN
       /\ calls' = [calls EXCEPT ![p] = Append(@, Call("authorize", arg[p].handle.v, r.kind))]
       /\ loc' = [loc EXCEPT ![p].authorize = r, ![p].intended = given,
                             ![p].options = AuthorizeOptions(loc[p].stateText)]
       /\ pc' = [pc EXCEPT ![p] = "done"]
       /\ out' = [out EXCEPT ![p] =
                    IF r.kind = "return"
                    THEN Return(Response(302, NoBody, JStr(r.val), Undefined, Undefined))
                    ELSE Return(LoginCatch(r.err))]
  /\ UNCHANGED <<storage, sessionTtl, mobileScheme, scope, instance, op, arg, started, snapshot>>

\* ------------------------------------------- routes.ts handleLogout

\* sessionManager.getClearCookieHeader()
ClearCookie == [k |-> "set-cookie", did |-> "", how |-> "clear"]

Json(success) == [k |-> "json", success |-> success]

LogoutOk_WithoutClearCookie ==
  Response(200, Json(TRUE), Undefined, Undefined, JStr("application/json"))

\* The response of a logout that went through.
LogoutOk ==
  Response(200, Json(TRUE), Undefined, ClearCookie, JStr("application/json"))

\* The catch block of handleLogout.
LogoutFailed ==
  Response(500, Json(FALSE), Undefined, Undefined, JStr("application/json"))

StartHandleLogoutWith(p, cookies) ==
  \E c \in cookies :
    Begin(p, "handleLogout", [cookie |-> c], "lo_cookie", LocInit, Pending)

\* handleLogout(request) is called.
StartHandleLogout(p) ==
  /\ instance = Standalone
  /\ started < MaxRequests
  /\ StartHandleLogoutWith(p, Cookies)

\* await sessionManager.getSessionFromRequest(request), inside the try.
LoCookie(p) ==
  /\ pc[p] = "lo_cookie"
  /\ \E c \in CookieManagerOutcomes(arg[p].cookie) :
       /\ calls' = [calls EXCEPT ![p] = Append(@, Call("cookie.read", << >>, c.kind))]
       /\ IF c.kind = "raise"
          THEN /\ loc' = [loc EXCEPT ![p].sessionResult = c]
               /\ CbDone(p, LogoutFailed)
          ELSE IF ~HasDid(c.val)
          THEN /\ loc' = [loc EXCEPT ![p].sessionResult = c]
               /\ CbDone(p, LogoutOk)
          ELSE /\ loc' = [loc EXCEPT ![p].sessionResult = c, ![p].did = c.val.data.did]
               /\ pc' = [pc EXCEPT ![p] = "lo_delete"]
               /\ out' = out
  /\ UNCHANGED <<storage, sessionTtl, mobileScheme, scope, instance, op, arg, started, snapshot>>

\* await storage.delete(`session:${did}`), then the clear-cookie response, or
\* the catch block.
LoDelete(p) ==
  /\ pc[p] = "lo_delete"
  /\ \E o \in StorageOutcomes :
       /\ calls' = [calls EXCEPT ![p] =
                      Append(@, Call("storage.delete", SessionKey(loc[p].did), o))]
       /\ loc' = [loc EXCEPT ![p].cleanup = o]
       /\ IF o = "ok"
          THEN /\ storage' = StorageDelete(storage, SessionKey(loc[p].did))
               /\ CbDone(p, LogoutOk)
          ELSE /\ storage' = storage
               /\ CbDone(p, LogoutFailed)
  /\ UNCHANGED <<sessionTtl, mobileScheme, scope, instance, op, arg, started, snapshot>>

\* ------------------------------------------------------------ specification

Step(p) ==
  \/ StartGetOAuthSession(p)
  \/ GosRestore(p)
  \/ GosCleanup(p)
  \/ StartGetSessionFromRequest(p)
  \/ GsfrCookie(p)
  \/ StartHandleCallback(p)
  \/ CbExchange(p)
  \/ CbStore(p)
  \/ CbCookie(p)
  \/ CbSeal(p)
  \/ StartHandleLogin(p)
  \/ LoginAuthorize(p)
  \/ StartHandleLogout(p)
  \/ LoCookie(p)
  \/ LoDelete(p)

\* One invocation at a time: the handlers as a caller that awaits each sees them.
Next == Step("p1")

Spec == Init /\ [][Next]_vars

\* Construction: createATProtoOAuth or generateClientMetadata on any
\* configuration, then logins on the instance that was built.
FactoryInit ==
  /\ storage = [key \in Keys |-> NoRecord]
  /\ sessionTtl = DefaultSessionTtl
  /\ mobileScheme = Undefined
  /\ scope = Undefined
  /\ instance = NotBuilt
  /\ pc = [p \in Procs |-> "idle"]
  /\ op = [p \in Procs |-> "none"]
  /\ arg = [p \in Procs |-> Undefined]
  /\ loc = [p \in Procs |-> LocInit]
  /\ out = [p \in Procs |-> Pending]
  /\ calls = [p \in Procs |-> << >>]
  /\ started = 0
  /\ snapshot = [p \in Procs |-> [key \in Keys |-> NoRecord]]

FactoryNext ==
  \/ CreateATProtoOAuth
  \/ CallGenerateClientMetadata("p1")
  \/ StartPlainLogin("p1")
  \/ LoginAuthorize("p1")

FactorySpec == FactoryInit /\ [][FactoryNext]_vars

\* Interleaving: two invocations in flight at once on one instance that
\* createATProtoOAuth built, each suspended at its awaits.
DeployedConfig ==
  [ baseUrl |-> "https://myapp.example.com", appName |-> "Test App",
    cookieSecret |-> Secret32, storage |-> TRUE, scope |-> Undefined,
    logger |-> JStr("console"), sessionTtl |-> Undefined, mobileScheme |-> Undefined ]

\* The flow state of a plain web login, as handleLogin writes it.
PlainStateText == JSONStringify(LoginState("alice.test", Undefined, FALSE, FALSE))

SealedCookies == {[k |-> "sealed", did |-> d] : d \in DIDs}

ConcurrentInit ==
  /\ storage = [key \in Keys |-> NoRecord]
  /\ sessionTtl = RouteHandlersConfig(DeployedConfig).sessionTtl
  /\ mobileScheme = RouteHandlersConfig(DeployedConfig).mobileScheme
  /\ scope = RouteHandlersConfig(DeployedConfig).scope
  /\ instance = Build(DeployedConfig)
  /\ pc = [p \in Procs |-> "idle"]
  /\ op = [p \in Procs |-> "none"]
  /\ arg = [p \in Procs |-> Undefined]
  /\ loc = [p \in Procs |-> LocInit]
  /\ out = [p \in Procs |-> Pending]
  /\ calls = [p \in Procs |-> << >>]
  /\ started = 0
  /\ snapshot = [p \in Procs |-> [key \in Keys |-> NoRecord]]

\* The operations of the built instance, called while fewer than MaxRequests
\* invocations have begun.
ConcurrentGetOAuthSession(p) ==
  /\ started < MaxRequests
  /\ StartGetOAuthSessionWith(p, DIDs)

ConcurrentGetSessionFromRequest(p) ==
  /\ started < MaxRequests
  /\ StartGetSessionFromRequestWith(p, SealedCookies)

ConcurrentHandleCallback(p) ==
  /\ started < MaxRequests
  /\ StartHandleCallbackWith(p, {Param(TRUE, "c0de")}, {Param(TRUE, PlainStateText)})

ConcurrentHandleLogout(p) ==
  /\ started < MaxRequests
  /\ StartHandleLogoutWith(p, SealedCookies)

ConcurrentSaveOAuthSession(p) ==
  /\ started < MaxRequests
  /\ StartSaveOAuthSessionWith(p, {Session(d, "at1") : d \in DIDs})

\* sessions.deleteOAuthSession(did) is called.
ConcurrentDeleteOAuthSession(p) ==
  /\ started < MaxRequests
  /\ \E d \in DIDs :
       Begin(p, "deleteOAuthSession", [did |-> d], "dos_delete",
             [LocInit EXCEPT !.did = d], Pending)

\* Two invocations at a time.
ConcurrentNext ==
  \E p \in {"p1", "p2"} :
    \/ ConcurrentGetOAuthSession(p)
    \/ GosRestore(p)
    \/ GosCleanup(p)
    \/ ConcurrentGetSessionFromRequest(p)
    \/ GsfrCookie(p)
    \/ ConcurrentHandleCallback(p)
    \/ CbExchange(p)
    \/ CbStore(p)
    \/ CbCookie(p)
    \/ ConcurrentHandleLogout(p)
    \/ LoCookie(p)
    \/ LoDelete(p)
    \/ ConcurrentSaveOAuthSession(p)
    \/ SosSet(p)
    \/ ConcurrentDeleteOAuthSession(p)
    \/ DosDelete(p)
    \/ StartPlainLogin(p)
    \/ LoginAuthorize(p)

ConcurrentSpec == ConcurrentInit /\ [][ConcurrentNext]_vars

\* The same-subject race and what follows it. A callback or a save for the
\* subject (p1) and a getOAuthSession for the same subject (p2) interleave at
\* their awaits. When both are over the subject's next request arrives (p3);
\* after it the subject logs in again (p1: handleLogin, then handleCallback),
\* sends one more request (p3), logs out (p2) and replays the cookie (p3).
RaceSubject == "did:plc:a"

\* handleCallback on p1: in the race, and again after the new login.
RaceCallback ==
  /\ \/ started < 2 /\ pc["p1"] = "idle"
     \/ started = 4 /\ pc["p1"] = "done"
  /\ StartHandleCallbackWith("p1", {Param(TRUE, "c0de")}, {Param(TRUE, PlainStateText)})

RaceSave ==
  /\ started < 2 /\ pc["p1"] = "idle"
  /\ StartSaveOAuthSessionWith("p1", {Session(RaceSubject, "at1")})

RaceGetOAuthSession ==
  /\ started < 2 /\ pc["p2"] = "idle"
  /\ StartGetOAuthSessionWith("p2", {RaceSubject})

\* getSessionFromRequest on p3 with the subject's cookie: after the race, after
\* the new login's callback, and after the logout.
RaceRequest ==
  /\ started \in {2, 5, 7}
  /\ \A p \in Procs : pc[p] \in {"idle", "done"}
  /\ StartGetSessionFromRequestWith("p3", {[k |-> "sealed", did |-> RaceSubject]})

RaceLoginAgain ==
  /\ started = 3 /\ pc["p3"] = "done"
  /\ StartHandleLoginWith("p1", {Param(TRUE, "alice.test")}, {Param(FALSE, "")},
                          {Param(FALSE, "")})

\* The subject logs out (p2) once the request after the new login is over.
RaceLogout ==
  /\ started = 6 /\ pc["p3"] = "done"
  /\ StartHandleLogoutWith("p2", {[k |-> "sealed", did |-> RaceSubject]})

RaceNext ==
  \/ RaceCallback
  \/ RaceSave
  \/ RaceGetOAuthSession
  \/ RaceRequest
  \/ RaceLoginAgain
  \/ RaceLogout
  \/ \E p \in Procs :
     \/ GosRestore(p)
     \/ GosCleanup(p)
     \/ GsfrCookie(p)
     \/ CbExchange(p)
     \/ CbStore(p)
     \/ CbCookie(p)
     \/ SosSet(p)
     \/ LoginAuthorize(p)
     \/ LoCookie(p)
     \/ LoDelete(p)

RaceSpec == ConcurrentInit /\ [][RaceNext]_vars

\* Issuer-mismatch recovery, followed by the browser. A callback arrives with a
\* flow state of a login (p1). When a callback answers with the recovery
\* redirect the browser requests the login URL (p2), and when that login
\* redirects to the authorization server, the server sends the browser back to
\* the callback with the state it was given (p3); and so on, round after round.
RecoveryCallback ==
  /\ started = 0
  /\ StartHandleCallbackWith("p1", {Param(TRUE, "c0de")},
                             {Param(TRUE, t) : t \in LoginStateTexts})

\* GET <Location> of the recovery redirect: the login URL, whose handle
\* parameter reads back what encodeURIComponent wrote.
FollowRecovery ==
  LET q == IF started = 1 THEN "p1" ELSE "p3" IN
  /\ started % 2 = 1 /\ started < 2 * MaxRounds
  /\ pc[q] = "done" /\ out[q].kind = "return"
  /\ out[q].val.status = 302 /\ out[q].val.setCookie = Undefined
  /\ \E e \in {r.err : r \in {c \in CallbackOutcomes : c.kind = "raise"}} :
       /\ e.cls = "IssuerMismatchError"
       /\ out[q].val.location = JStr("/login?handle=" \o EncodeURIComponent(e.handle))
       /\ StartHandleLoginWith("p2", {Param(TRUE, e.handle)}, {Param(FALSE, "")},
                               {Param(FALSE, "")})

\* The authorization server redirects to the callback with a code and the
\* state string authorize was given.
FollowAuthorize ==
  /\ started % 2 = 0 /\ started > 0
  /\ pc["p2"] = "done" /\ loc["p2"].authorize.kind = "return"
  /\ out["p2"].kind = "return" /\ out["p2"].val.status = 302
  /\ StartHandleCallbackWith("p3", {Param(TRUE, "c0de")},
                             {Param(TRUE, loc["p2"].options.state)})

RecoverySpec ==
  ConcurrentInit /\ [][ \/ RecoveryCallback
                        \/ FollowRecovery
                        \/ FollowAuthorize
                        \/ \E p \in Procs :
                             \/ CbExchange(p)
                             \/ CbStore(p)
                             \/ CbCookie(p)
                             \/ CbSeal(p)
                             \/ LoginAuthorize(p) ]_vars

\* ------------------------------------------------------------ claims: vocabulary

\* Invocation p of the named operation has given its caller a result or a throw.
Finished(p, operation) == pc[p] = "done" /\ op[p] = operation

\* oauthClient.restore threw, with a network-class error or with any other.
RestoreRaisedNetwork(p) ==
  loc[p].restore.kind = "raise" /\ loc[p].restore.err.cls = "NetworkError"

RestoreRaisedTerminal(p) ==
  loc[p].restore.kind = "raise" /\ loc[p].restore.err.cls # "NetworkError"

\* The collaborator calls of invocation p with a name in fns.
CallsOf(p, fns) == {i \in 1..Len(calls[p]) : calls[p][i].fn \in fns}

StorageWrites == {"storage.set", "storage.delete"}

\* The cookie manager returned and its result names a subject.
CookieGaveSubject(p) ==
  /\ loc[p].sessionResult.kind = "return"
  /\ loc[p].sessionResult.val.data # Undefined
  /\ loc[p].sessionResult.val.data.did # ""

CookieGaveNoSubject(p) ==
  /\ loc[p].sessionResult.kind = "return"
  /\ \/ loc[p].sessionResult.val.data = Undefined
     \/ loc[p].sessionResult.val.data.did = ""

\* ------------------------------------------------------------ claims C1 - C10

\* C1 (as stated): whenever restore(did) raises an error that is not a
\* network-class error, getOAuthSession returns null without raising, and
\* afterwards the storage holds no record under session:<did>.
C1_TerminalErrorAlwaysRemovesRecord ==
  \A p \in Procs :
    (Finished(p, "getOAuthSession") /\ RestoreRaisedTerminal(p))
      => /\ out[p] = Return(Null)
         /\ storage[SessionKey(arg[p].did)] = NoRecord

\* C1 (amended): whenever restore(did) raises an error that is not a
\* network-class error, getOAuthSession returns null without raising, it has
\* issued exactly one storage delete, of session:<did>, and unless that delete
\* itself raised the storage afterwards holds no record under session:<did>.
C1_TerminalErrorReturnsNullAndCleansUp ==
  \A p \in Procs :
    (Finished(p, "getOAuthSession") /\ RestoreRaisedTerminal(p))
      => /\ out[p] = Return(Null)
         /\ Cardinality(CallsOf(p, StorageWrites)) = 1
         /\ \A i \in CallsOf(p, StorageWrites) :
              /\ calls[p][i].fn = "storage.delete"
              /\ calls[p][i].key = SessionKey(arg[p].did)
              /\ calls[p][i].result = "ok"
                   => storage[SessionKey(arg[p].did)] = NoRecord

\* C1 witness: a stored record was removed by the clean-up of a terminal failure.
C1_Witness ==
  \E p \in Procs :
    /\ Finished(p, "getOAuthSession") /\ RestoreRaisedTerminal(p)
    /\ snapshot[p][SessionKey(arg[p].did)] # NoRecord
    /\ loc[p].cleanup = "ok"
    /\ storage[SessionKey(arg[p].did)] = NoRecord
    /\ out[p] = Return(Null)

\* C2: whenever restore(did) raises a network-class error, getOAuthSession
\* raises that same error to its caller: it does not return, and it raises no
\* other error.
C2_NetworkErrorRethrownUnchanged ==
  \A p \in Procs :
    (Finished(p, "getOAuthSession") /\ RestoreRaisedNetwork(p))
      => /\ out[p].kind = "raise"
         /\ out[p].err = loc[p].restore.err

\* C2 witness: getOAuthSession ended by raising the second network error.
C2_Witness ==
  \E p \in Procs :
    /\ Finished(p, "getOAuthSession") /\ RestoreRaisedNetwork(p)
    /\ out[p] = Raise(NetErr2)

\* C3: when restore(did) raises a network-class error, neither getOAuthSession
\* nor getSessionFromRequest issues a storage delete or set, and the storage
\* is after the call what it was before it.
C3_TransientFailureLeavesStorage ==
  \A p \in Procs :
    ( /\ pc[p] = "done"
      /\ op[p] \in {"getOAuthSession", "getSessionFromRequest"}
      /\ RestoreRaisedNetwork(p) )
      => /\ CallsOf(p, StorageWrites) = {}
         /\ storage = snapshot[p]

\* C3 witness: a getSessionFromRequest met a network error while a record for
\* its subject was stored, and the record is still there.
C3_Witness ==
  \E p \in Procs :
    /\ Finished(p, "getSessionFromRequest") /\ RestoreRaisedNetwork(p)
    /\ storage[SessionKey(loc[p].did)] # NoRecord

\* C4: when restore(did) raises a non-network error and the clean-up delete of
\* session:<did> itself raises, getOAuthSession still returns null and raises
\* nothing.
C4_CleanupFailureStillNull ==
  \A p \in Procs :
    ( /\ Finished(p, "getOAuthSession") /\ RestoreRaisedTerminal(p)
      /\ \E i \in CallsOf(p, {"storage.delete"}) : calls[p][i].result = "throws" )
      => out[p] = Return(Null)

\* C4 witness: the clean-up delete raised, the record is still stored, null came back.
C4_Witness ==
  \E p \in Procs :
    /\ Finished(p, "getOAuthSession") /\ RestoreRaisedTerminal(p)
    /\ loc[p].cleanup = "throws"
    /\ storage[SessionKey(arg[p].did)] # NoRecord
    /\ out[p] = Return(Null)

\* C5 (as stated): getSessionFromRequest never raises to its caller: whatever
\* the cookie manager and the session store do (return or raise), it returns a
\* result object.
C5_GetSessionFromRequestNeverRaises ==
  \A p \in Procs :
    Finished(p, "getSessionFromRequest") => out[p].kind = "return"

\* C6: with a valid cookie, when session restoration raises, the result is
\* {session: null, error.type = OAUTH_ERROR} with the underlying message; a
\* transient failure is never reported as SESSION_EXPIRED.
C6_RestoreFailureIsOAuthError ==
  \A p \in Procs :
    (Finished(p, "getSessionFromRequest") /\ CookieGaveSubject(p))
      => /\ loc[p].store.kind = "raise"
           => /\ out[p].kind = "return"
              /\ out[p].val.session = Null
              /\ out[p].val.error.type = "OAUTH_ERROR"
              /\ out[p].val.error.message = loc[p].store.err.msg
         /\ RestoreRaisedNetwork(p)
           => /\ loc[p].store.kind = "raise"
              /\ out[p].kind = "return"
              /\ out[p].val.error.type # "SESSION_EXPIRED"

\* C6 witness: a network error surfaced as OAUTH_ERROR.
C6_Witness ==
  \E p \in Procs :
    /\ Finished(p, "getSessionFromRequest") /\ CookieGaveSubject(p)
    /\ RestoreRaisedNetwork(p)
    /\ out[p].val.error.type = "OAUTH_ERROR"
    /\ out[p].val.error.message = "DNS lookup failed"

\* C7: when the cookie manager yields no subject, the result is {session: null,
\* error} with the error type the cookie manager reported, or NO_COOKIE when it
\* reported none, and the call does no restoration and no storage access.
C7_NoSubjectNoStorageAccess ==
  \A p \in Procs :
    (Finished(p, "getSessionFromRequest") /\ CookieGaveNoSubject(p))
      => /\ out[p].kind = "return"
         /\ out[p].val.session = Null
         /\ out[p].val.error # Undefined
         /\ out[p].val.error.type =
              (IF loc[p].sessionResult.val.error = Undefined THEN "NO_COOKIE"
               ELSE loc[p].sessionResult.val.error.type)
         /\ \A i \in 1..Len(calls[p]) : calls[p][i].fn = "cookie.read"
         /\ storage = snapshot[p]

\* C7 witness: a cookie whose payload has an empty subject, reported as NO_COOKIE.
C7_Witness ==
  \E p \in Procs :
    /\ Finished(p, "getSessionFromRequest") /\ CookieGaveNoSubject(p)
    /\ loc[p].sessionResult.val.data # Undefined
    /\ out[p].val.error.type = "NO_COOKIE"

\* C8: with a valid cookie for subject d: if restoration returns a session the
\* result is that session with no error; if it returns null the result is
\* {session: null, error.type = SESSION_EXPIRED}; in both cases setCookieHeader
\* is the refreshed header the cookie manager produced for this request.
C8_RestoreResultAndRefreshedCookie ==
  \A p \in Procs :
    ( /\ Finished(p, "getSessionFromRequest") /\ CookieGaveSubject(p)
      /\ loc[p].store.kind = "return" )
      => /\ out[p].kind = "return"
         /\ out[p].val.setCookieHeader = loc[p].sessionResult.val.setCookieHeader
         /\ IF loc[p].store.val = Null
            THEN /\ out[p].val.session = Null
                 /\ out[p].val.error # Undefined
                 /\ out[p].val.error.type = "SESSION_EXPIRED"
            ELSE /\ out[p].val.session = loc[p].store.val
                 /\ out[p].val.session.did = loc[p].sessionResult.val.data.did
                 /\ out[p].val.error = Undefined

\* C8 witness: a null restore that still forwards the refreshed cookie header.
C8_Witness ==
  \E p \in Procs :
    /\ Finished(p, "getSessionFromRequest") /\ CookieGaveSubject(p)
    /\ loc[p].store = Return(Null)
    /\ out[p].val.error.type = "SESSION_EXPIRED"
    /\ out[p].val.setCookieHeader = SetCookie(loc[p].did, "refreshed")

\* handleCallback answered in web mode: a 302 that carries the session cookie
\* and was made without sealing a mobile token.
WebRedirect(p) ==
  /\ Finished(p, "handleCallback")
  /\ out[p].val.status = 302
  /\ out[p].val.setCookie # Undefined
  /\ CallsOf(p, {"cookie.seal"}) = {}

\* "/" or a relative path that starts with exactly one "/".
SafeRelativePath(s) == StartsWith(s, "/") /\ ~StartsWith(s, "//")

\* C9 (as stated): for every state value handleCallback receives, one that
\* handleLogin did not produce included, the Location of a web-mode 302 is "/"
\* or a relative path that starts with exactly one "/": never a value that
\* starts with "//", never an absolute URL.
C9_WebRedirectTargetIsRelative ==
  \A p \in Procs :
    WebRedirect(p) => SafeRelativePath(out[p].val.location.v)

\* The state parameter is a well-formed flow state: it parses, to a record
\* that carries a handle.
WellFormedFlowState(text) ==
  /\ JSONParse(text).ok
  /\ JSONParse(text).val.k = "obj"
  /\ "handle" \in DOMAIN JSONParse(text).val.v
  /\ JSONParse(text).val.v["handle"].k = "str"

InvalidStateResponse ==
  Response(400, Text("Invalid state parameter"), Undefined, Undefined, Undefined)

\* C10 (as stated): handleCallback answers 400 "Invalid state parameter" for
\* every state parameter that is not a well-formed flow state (text that does
\* not parse, or that parses to something that is no record with a handle); it
\* then exchanges no code, writes nothing to storage and mints no cookie.
C10_MalformedStateRejected ==
  \A p \in Procs :
    ( /\ Finished(p, "handleCallback")
      /\ ~Missing(arg[p].code, "") /\ ~Missing(arg[p].state, << >>)
      /\ ~WellFormedFlowState(arg[p].state.v) )
      => /\ out[p] = Return(InvalidStateResponse)
         /\ calls[p] = << >>
         /\ storage = snapshot[p]

\* ------------------------------------------------------------ claims C11 - C20

\* The response an invocation ended with.
Answer(p) == out[p].val

Answered(p, operation) == Finished(p, operation) /\ out[p].kind = "return"

\* The code or the state query parameter of a callback request is absent or
\* empty.
ParameterMissing(p) ==
  \/ ~arg[p].code.present \/ arg[p].code.v = ""
  \/ ~arg[p].state.present \/ arg[p].state.v = << >>

\* C11: handleCallback answers 400 when the code or the state query parameter
\* is missing or empty; it then does not call the OAuth client's callback,
\* writes nothing to storage and sets no cookie.
C11_MissingParametersRejected ==
  \A p \in Procs :
    (Finished(p, "handleCallback") /\ ParameterMissing(p))
      => /\ out[p].kind = "return"
         /\ Answer(p).status = 400
         /\ Answer(p).setCookie = Undefined
         /\ calls[p] = << >>
         /\ storage = snapshot[p]

\* An empty code beside a state that parses: the rejected request nearest to
\* one that is exchanged.
C11_Witness ==
  \E p \in Procs :
    /\ Finished(p, "handleCallback")
    /\ arg[p].code.present /\ arg[p].code.v = ""
    /\ arg[p].state.present /\ arg[p].state.v = FullStateText
    /\ Answer(p).status = 400

\* The flow state of a callback request carries the flag name as true.
FlagOn(p, name) ==
  /\ loc[p].state.k = "obj"
  /\ name \in DOMAIN loc[p].state.v
  /\ loc[p].state.v[name] = JBool("true")

\* The path the flow state stores, or "/".
StoredPathOrHome(p) ==
  IF loc[p].state.k = "obj" /\ "redirectPath" \in DOMAIN loc[p].state.v
  THEN loc[p].state.v["redirectPath"].v
  ELSE "/"

\* handleCallback ended with a response that delivers the session cookie.
Delivered(p) ==
  Answered(p, "handleCallback") /\ Answer(p).setCookie # Undefined

MobileAnswer(p) ==
  /\ Answer(p).status = 302
  /\ mobileScheme # Undefined
  /\ StartsWith(Answer(p).location.v, mobileScheme.v \o "?")

PwaAnswer(p) ==
  /\ Answer(p).status = 200
  /\ Answer(p).body.k = "html"
  /\ Answer(p).contentType = JStr("text/html; charset=utf-8")

WebAnswer(p) ==
  /\ Answer(p).status = 302
  /\ Answer(p).body = NoBody
  /\ Answer(p).location = JStr(StoredPathOrHome(p))

\* C12: a successful handleCallback answers in exactly one delivery mode, by
\* this precedence: mobile (302 to the configured scheme) iff state.mobile is
\* set and a mobile scheme is configured; otherwise PWA (200 HTML) iff
\* state.pwa is set; otherwise web (302 to the stored path or "/").
C12_DeliveryModePrecedence ==
  \A p \in Procs :
    Delivered(p) =>
      IF FlagOn(p, "mobile") /\ mobileScheme # Undefined
      THEN MobileAnswer(p) /\ ~PwaAnswer(p) /\ ~WebAnswer(p)
      ELSE IF FlagOn(p, "pwa")
      THEN PwaAnswer(p) /\ ~MobileAnswer(p) /\ ~WebAnswer(p)
      ELSE WebAnswer(p) /\ ~MobileAnswer(p) /\ ~PwaAnswer(p)

\* Both flags set and a scheme configured: mobile wins.
C12_Witness ==
  \E p \in Procs :
    /\ Delivered(p)
    /\ FlagOn(p, "mobile") /\ FlagOn(p, "pwa")
    /\ MobileAnswer(p)

\* The mobile flag set with no scheme configured: the request falls through to
\* the PWA page.
C12_FallThrough ==
  \E p \in Procs :
    /\ Delivered(p)
    /\ FlagOn(p, "mobile") /\ FlagOn(p, "pwa")
    /\ mobileScheme = Undefined
    /\ PwaAnswer(p)

\* The code exchange of a callback invocation gave a session.
Exchanged(p) == loc[p].exchange.kind = "return"

\* C13: whenever handleCallback answers in one of the three delivery modes
\* after exchanging the code into a session for d, the response carries the
\* session cookie minted for d, and before the response the serialized session
\* was written to storage under session:<d> with the configured session TTL.
C13_DeliveryCarriesCookieAfterWrite ==
  \A p \in Procs :
    ( /\ Answered(p, "handleCallback") /\ Exchanged(p)
      /\ Answer(p).status \in {200, 302} )
      => LET session == loc[p].exchange.val
             d == session.did
         IN /\ Answer(p).setCookie = [k |-> "set-cookie", did |-> d, how |-> "fresh"]
            /\ \E i, j \in 1..Len(calls[p]) :
                 /\ i < j
                 /\ calls[p][i] = [fn |-> "storage.set", key |-> <<"session:", d>>,
                                   result |-> "ok"]
                 /\ calls[p][j] = [fn |-> "cookie.create", key |-> d, result |-> "ok"]
            /\ storage[<<"session:", d>>] =
                 [k |-> "record", value |-> ToJSON(session), ttl |-> sessionTtl]

\* A PWA delivery over a store that already held a record for the subject.
C13_Witness ==
  \E p \in Procs :
    /\ Answered(p, "handleCallback") /\ Exchanged(p)
    /\ PwaAnswer(p)
    /\ snapshot[p][<<"session:", loc[p].did>>] # NoRecord
    /\ snapshot[p][<<"session:", loc[p].did>>] # storage[<<"session:", loc[p].did>>]

\* Invocation p wrote a session record: a storage.set of its own that resolved.
WroteRecord(p) ==
  \E i \in 1..Len(calls[p]) :
    calls[p][i].fn = "storage.set" /\ calls[p][i].result = "ok"

\* C14 (as stated): no partial commit.  An invocation of handleCallback that
\* ends with a 400 has written no session record to storage; a storage set
\* happens only in invocations that also deliver the session cookie.
C14_NoPartialCommit ==
  \A p \in Procs :
    Answered(p, "handleCallback") =>
      /\ Answer(p).status = 400 => ~WroteRecord(p) /\ storage = snapshot[p]
      /\ WroteRecord(p) => Answer(p).setCookie # Undefined

\* The code exchange raised an issuer-mismatch error that carries a handle.
MismatchWithHandle(p) ==
  /\ loc[p].exchange.kind = "raise"
  /\ loc[p].exchange.err.cls = "IssuerMismatchError"
  /\ loc[p].exchange.err.handle # ""

\* A collaborator call of invocation p failed.
SomeCallFailed(p) ==
  \E i \in 1..Len(calls[p]) : calls[p][i].result \in {"raise", "throws"}

\* C15: when the code exchange raises an issuer-mismatch error that carries a
\* recovered handle, handleCallback answers 302 to the login entry point with
\* that handle as the handle parameter, writes nothing to storage and sets no
\* cookie; an issuer mismatch without a handle, and every other failure of the
\* callback, answers 400 with the error message.
C15_IssuerMismatchRestartsLogin ==
  \A p \in Procs :
    Finished(p, "handleCallback") =>
      /\ MismatchWithHandle(p) =>
           /\ out[p].kind = "return"
           /\ Answer(p).status = 302
           /\ Answer(p).location =
                JStr("/login?handle=" \o EncodeURIComponent(loc[p].exchange.err.handle))
           /\ Answer(p).setCookie = Undefined
           /\ CallsOf(p, StorageWrites) = {}
           /\ storage = snapshot[p]
      /\ (SomeCallFailed(p) /\ ~MismatchWithHandle(p)) =>
           /\ out[p].kind = "return"
           /\ Answer(p).status = 400
           /\ Answer(p).body.k = "text"
           /\ StartsWith(Answer(p).body.text, "OAuth callback failed: ")
           /\ loc[p].exchange.kind = "raise" =>
                Answer(p).body.text =
                  "OAuth callback failed: " \o loc[p].exchange.err.msg

C15_Witness ==
  \E p \in Procs :
    /\ Finished(p, "handleCallback")
    /\ MismatchWithHandle(p)
    /\ Answer(p).location = JStr("/login?handle=bob.test")

\* The other half: a mismatch that carries no handle is answered 400.
C15_MismatchWithoutHandle ==
  \E p \in Procs :
    /\ Finished(p, "handleCallback")
    /\ loc[p].exchange.kind = "raise"
    /\ loc[p].exchange.err.cls = "IssuerMismatchError"
    /\ loc[p].exchange.err.handle = ""
    /\ Answer(p).status = 400

\* The positions of character c in the string s.
Positions(s, c) == {i \in 1..Len(s) : SubSeq(s, i, i) = c}

\* The least member of the set of numbers S, or otherwise when S is empty.
Least(S, otherwise) ==
  IF S = {} THEN otherwise ELSE CHOOSE i \in S : \A j \in S : i <= j

\* A URL up to its query: scheme, host and path.
Target(url) == SubSeq(url, 1, Least(Positions(url, "?"), Len(url) + 1) - 1)

\* The names of the query parameters of a URL, in order.
QueryNames(url) ==
  LET q == Least(Positions(url, "?"), Len(url) + 1)
      starts == {i + 1 : i \in {j \in Positions(url, "&") : j > q} \cup ({q} \cap 1..Len(url))}
      NameAt(a) ==
        SubSeq(url, a, Least({j \in Positions(url, "=") : j >= a}, Len(url) + 1) - 1)
  IN {<<a, NameAt(a)>> : a \in starts}

\* Invocation p sealed a token for the mobile app and answered.
MobileDelivered(p) ==
  /\ Delivered(p)
  /\ \E i \in 1..Len(calls[p]) :
       calls[p][i].fn = "cookie.seal" /\ calls[p][i].result = "ok"

\* C16: the mobile redirect target is always the server-configured mobileScheme.
\* Whatever the client supplied (code, state text, the handle and the paths
\* inside it), scheme, host and path of the Location of a mobile 302 equal the
\* configured mobileScheme, and only the query parameters session_token, did
\* and handle are added.
C16_MobileTargetIsConfigured ==
  \A p \in Procs :
    MobileDelivered(p) =>
      /\ Answer(p).status = 302
      /\ Target(Answer(p).location.v) = mobileScheme.v
      /\ {n[2] : n \in QueryNames(Answer(p).location.v)} = {"session_token", "did", "handle"}
      /\ Cardinality(QueryNames(Answer(p).location.v)) = 3

\* A mobile redirect for a forged state whose handle holds query syntax and
\* that names a foreign redirect path.
C16_Witness ==
  \E p \in Procs :
    /\ MobileDelivered(p)
    /\ FlagOn(p, "mobile")
    /\ {"handle", "redirectPath"} \subseteq DOMAIN loc[p].state.v
    /\ loc[p].state.v["handle"] = JStr("a?b&did=c#d")
    /\ loc[p].state.v["redirectPath"] = JStr("https://evil.example/x")

\* The header that clears the session cookie.
ClearsCookie(h) == h = [k |-> "set-cookie", did |-> "", how |-> "clear"]

\* C17 (as stated): every response of handleLogout carries a Set-Cookie header
\* that clears the session cookie, whether or not a cookie was present, and
\* also when reading the cookie or deleting the stored record fails.
C17_LogoutAlwaysClearsCookie ==
  \A p \in Procs :
    Finished(p, "handleLogout") =>
      out[p].kind = "return" /\ ClearsCookie(Answer(p).setCookie)

\* C18: handleLogout on a request with no valid session cookie (the cookie
\* manager names no subject) answers 200 with body {success: true} and the
\* clear-cookie header, and performs no storage delete: every stored session
\* record is unchanged.
C18_LogoutWithoutSessionTouchesNothing ==
  \A p \in Procs :
    (Finished(p, "handleLogout") /\ CookieGaveNoSubject(p))
      => /\ out[p].kind = "return"
         /\ Answer(p).status = 200
         /\ Answer(p).body = [k |-> "json", success |-> TRUE]
         /\ ClearsCookie(Answer(p).setCookie)
         /\ CallsOf(p, StorageWrites) = {}
         /\ storage = snapshot[p]

\* A logout without a subject while the store holds a session record.
C18_Witness ==
  \E p \in Procs :
    /\ Finished(p, "handleLogout") /\ CookieGaveNoSubject(p)
    /\ Answer(p).status = 200
    /\ \E key \in Keys : storage[key] # NoRecord

MalformedHandles == {"invalid@@@handle", "nodots", "http://bsky.social"}

BadRequest(text) ==
  [ status |-> 400, body |-> [k |-> "text", text |-> text], location |-> Undefined,
    setCookie |-> Undefined, contentType |-> Undefined ]

\* C20: handleLogin answers 400 "Invalid handle" when the handle parameter is
\* absent or empty, and 400 "Invalid handle format" when it is present, does
\* not start with "https://" and is no syntactically valid handle; in both
\* cases authorize is not called.  A value that starts with "https://" goes to
\* authorize without the handle grammar being applied.
C20_HandleValidation ==
  \A p \in Procs :
    Finished(p, "handleLogin") =>
      LET h == arg[p].handle
      IN /\ (~h.present \/ h.v = "") =>
              out[p] = Return(BadRequest("Invalid handle")) /\ calls[p] = << >>
         /\ (h.present /\ h.v \in MalformedHandles) =>
              out[p] = Return(BadRequest("Invalid handle format")) /\ calls[p] = << >>
         /\ (h.present /\ StartsWith(h.v, "https://")) =>
              /\ Len(calls[p]) = 1
              /\ calls[p][1].fn = "authorize"
              /\ calls[p][1].key = h.v

C20_Witness ==
  \E p \in Procs :
    /\ Finished(p, "handleLogin")
    /\ arg[p].handle = [present |-> TRUE, v |-> "invalid@@@handle"]
    /\ Answer(p).status = 400

\* The authorization server URL is handed to authorize as it came.
C20_UrlPassedThrough ==
  \E p \in Procs :
    /\ Finished(p, "handleLogin")
    /\ arg[p].handle = [present |-> TRUE, v |-> "https://bsky.social"]
    /\ Len(calls[p]) = 1 /\ calls[p][1].key = "https://bsky.social"
    /\ Answer(p).status = 302

\* ------------------------------------------------------------ claims C21 - C30

\* handleLogin called authorize.
AuthorizeCalled(p) ==
  /\ Finished(p, "handleLogin")
  /\ Len(calls[p]) = 1 /\ calls[p][1].fn = "authorize"

\* The flow state handleLogin gave to authorize, read back from the state string.
PassedState(p) == JSONParse(loc[p].options.state).val

\* C21: handleLogin records redirectPath in the flow state if and only if the
\* redirect query parameter starts with "/" and does not start with "//"; any
\* other redirect value is dropped, and the login still answers 302 to the
\* authorization URL with a state that has no redirect target.
C21_RedirectPathValidated ==
  \A p \in Procs :
    AuthorizeCalled(p) =>
      LET r == arg[p].redirect
          relative == r.present /\ StartsWith(r.v, "/") /\ ~StartsWith(r.v, "//")
      IN /\ JSONParse(loc[p].options.state).ok
         /\ PassedState(p).k = "obj"
         /\ ("redirectPath" \in DOMAIN PassedState(p).v) <=> relative
         /\ relative => PassedState(p).v["redirectPath"] = JStr(r.v)
         /\ loc[p].authorize.kind = "return" =>
              /\ Answer(p).status = 302
              /\ Answer(p).location = JStr(loc[p].authorize.val)

\* A protocol-relative redirect is dropped and the login still redirects.
C21_Witness ==
  \E p \in Procs :
    /\ AuthorizeCalled(p)
    /\ arg[p].redirect = [present |-> TRUE, v |-> "//evil.example"]
    /\ "redirectPath" \notin DOMAIN PassedState(p).v
    /\ Answer(p).status = 302

\* A relative redirect is kept.
C21_Kept ==
  \E p \in Procs :
    /\ AuthorizeCalled(p)
    /\ arg[p].redirect = [present |-> TRUE, v |-> "/dashboard"]
    /\ PassedState(p).v["redirectPath"] = JStr("/dashboard")

\* C25: when the OAuth client's restore(did) returns without raising,
\* getOAuthSession returns exactly the value restore returned (the session
\* as it is, or null) and performs no storage set and no storage delete.
C25_ReadNeverPersists ==
  \A p \in Procs :
    (Finished(p, "getOAuthSession") /\ loc[p].restore.kind = "return")
      => /\ out[p] = loc[p].restore
         /\ CallsOf(p, StorageWrites) = {}
         /\ storage = snapshot[p]

\* restore returned null while the store held records.
C25_Witness ==
  \E p \in Procs :
    /\ Finished(p, "getOAuthSession")
    /\ loc[p].restore = [kind |-> "return", val |-> Null]
    /\ out[p] = [kind |-> "return", val |-> Null]
    /\ \E key \in Keys : storage[key] # NoRecord

\* restore returned a session.
C25_SessionAsIs ==
  \E p \in Procs :
    /\ Finished(p, "getOAuthSession")
    /\ loc[p].restore.kind = "return" /\ loc[p].restore.val # Null
    /\ out[p] = loc[p].restore

\* createATProtoOAuth was called.
FactoryCalled == instance.by = "createATProtoOAuth"

\* The requirements a configuration fails.
Failings(c) ==
  {x \in {"baseUrl"} : c.baseUrl = ""}
    \cup {x \in {"appName"} : c.appName = ""}
    \cup {x \in {"cookieSecret"} : c.cookieSecret = ""}
    \cup {x \in {"short"} : c.cookieSecret # "" /\ Len(c.cookieSecret) < 32}
    \cup {x \in {"storage"} : ~c.storage}

FailureMessage ==
  [ baseUrl |-> "baseUrl is required",
    appName |-> "appName is required",
    cookieSecret |-> "cookieSecret is required",
    short |-> "cookieSecret must be at least 32 characters for secure encryption",
    storage |-> "storage is required" ]

\* C26: createATProtoOAuth fails at construction, before any collaborator is
\* built, when the base URL is empty, the application name is empty, the
\* cookie secret is empty, the cookie secret has fewer than 32 characters, or
\* the storage is missing, each with its own distinguishing message; a cookie
\* secret of exactly 32 characters (31 is rejected) with the other fields valid
\* is accepted.
C26_ConfigValidation ==
  FactoryCalled =>
    LET c == instance.config
        r == instance.result
    IN /\ (Failings(c) = {}) <=> (r.kind = "return")
       /\ r.kind = "return" => instance.built # {}
       /\ Failings(c) # {} =>
            /\ r.kind = "raise"
            /\ instance.built = {}
            /\ \E x \in Failings(c) : r.err.msg = FailureMessage[x]
       /\ \A x \in DOMAIN FailureMessage : Failings(c) = {x} => r.err.msg = FailureMessage[x]
       /\ \A x, y \in DOMAIN FailureMessage : x # y => FailureMessage[x] # FailureMessage[y]

\* A secret of 31 characters, all else valid, is refused.
C26_Witness ==
  /\ FactoryCalled
  /\ Failings(instance.config) = {"short"}
  /\ Len(instance.config.cookieSecret) = 31
  /\ instance.result.kind = "raise"

\* A secret of 32 characters, all else valid, is accepted.
C26_Boundary ==
  /\ FactoryCalled
  /\ Len(instance.config.cookieSecret) = 32
  /\ instance.result.kind = "return"

\* C27 (as stated): absence of a configured logger never changes control flow:
\* for the same request and the same behaviour of the OAuth client, an
\* instance built with no logger answers as an instance built with a logger
\* does; no logging call made through the logger handed to the OAuth client
\* raises.
C27_LoggerAbsenceChangesNothing ==
  \A p \in Procs :
    (FactoryCalled /\ AuthorizeCalled(p))
      => /\ loc[p].authorize = loc[p].intended
         /\ loc[p].intended.kind = "return" =>
              Answer(p).status = 302 /\ Answer(p).location = JStr(loc[p].intended.val)

\* The scope the OAuth client works with when handed this option.
EffectiveScope(option) ==
  IF option = Undefined THEN "atproto transition:generic" ELSE option.v

\* C28 (as stated): for an instance built by createATProtoOAuth, the scope
\* that handleLogin passes to the OAuth client's authorize equals the
\* configured OAuth scope, the one the client metadata publishes.
C28_AuthorizeScopeIsConfigured ==
  \A p \in Procs :
    (FactoryCalled /\ AuthorizeCalled(p))
      => EffectiveScope(loc[p].options.scope) = instance.clientMetadata.scope

\* The loopback base URLs and the origin their redirect URI must have.
LoopbackOrigin ==
  [ b \in { "http://localhost:8000", "http://localhost:8000/", "http://localhost",
            "http://localhost:80", "http://127.0.0.1:3000", "http://[::1]:8080",
            "https://localhost:8443/app" } |->
      IF b \in {"http://localhost:8000", "http://localhost:8000/"} THEN "http://127.0.0.1:8000"
      ELSE IF b \in {"http://localhost", "http://localhost:80"} THEN "http://127.0.0.1"
      ELSE IF b = "http://127.0.0.1:3000" THEN "http://127.0.0.1:3000"
      ELSE IF b = "http://[::1]:8080" THEN "http://127.0.0.1:8080"
      ELSE "https://127.0.0.1:8443" ]

\* generateClientMetadata(config) was called on its own and returned.
Generated(p) == Finished(p, "generateClientMetadata") /\ out[p].kind = "return"

\* C29: generateClientMetadata: for every base URL whose host is localhost,
\* 127.0.0.1 or the IPv6 loopback (any port), the single redirect URI has host
\* 127.0.0.1 with the port preserved and client_id has the form
\* http://localhost?redirect_uri=<encoded redirect URI>&scope=<encoded scope>;
\* for every other base URL client_id is <base>/oauth-client-metadata.json and
\* the redirect URI is <base>/oauth/callback, <base> being the base URL less
\* its trailing slash.
C29_LoopbackMetadata ==
  \A p \in Procs :
    Generated(p) =>
      LET base == arg[p].baseUrl
          m == out[p].val
      IN IF base \in DOMAIN LoopbackOrigin
         THEN /\ m.redirect_uris = <<LoopbackOrigin[base] \o "/oauth/callback">>
              /\ m.client_id = "http://localhost?redirect_uri=" \o Encode(m.redirect_uris[1])
                                 \o "&scope=" \o Encode(m.scope)
         ELSE /\ m.client_id = StripTrailingSlash(base) \o "/oauth-client-metadata.json"
              /\ m.redirect_uris = <<StripTrailingSlash(base) \o "/oauth/callback">>

\* Metadata for the IPv6 loopback.
C29_Witness ==
  \E p \in Procs :
    /\ Generated(p)
    /\ arg[p].baseUrl = "http://[::1]:8080"
    /\ out[p].val.redirect_uris = <<"http://127.0.0.1:8080/oauth/callback">>

\* Metadata for a public host whose name starts with localhost.
C29_PublicHost ==
  \E p \in Procs :
    /\ Generated(p)
    /\ arg[p].baseUrl = "https://localhost.example.com"
    /\ out[p].val.client_id = "https://localhost.example.com/oauth-client-metadata.json"

EndsWithSlash(s) == Len(s) > 0 /\ SubSeq(s, Len(s), Len(s)) = "/"

\* The URL holds "//" somewhere after its scheme separator.
DoubleSlashInside(url) ==
  \E i \in 1..(Len(url) - 1) :
    /\ SubSeq(url, i, i + 1) = "//"
    /\ ~(i > 1 /\ SubSeq(url, i - 1, i - 1) = ":" /\ Positions(url, ":") \cap 1..(i - 2) = {})

\* C30 (as stated): for every base URL given with a trailing slash (one or
\* more), no URL field derived from it carries that slash: client_uri does not
\* end with "/", and client_id and the redirect URI contain no "//" after the
\* scheme separator; both for generateClientMetadata and for the client_id and
\* redirect_uri createATProtoOAuth gives the OAuth client.
C30_TrailingSlashNeverDerived ==
  /\ \A p \in Procs :
       (Generated(p) /\ EndsWithSlash(arg[p].baseUrl)) =>
         /\ ~EndsWithSlash(out[p].val.client_uri)
         /\ ~DoubleSlashInside(out[p].val.client_id)
         /\ ~DoubleSlashInside(out[p].val.redirect_uris[1])
  /\ (FactoryCalled /\ instance.result.kind = "return"
        /\ EndsWithSlash(instance.config.baseUrl)) =>
       /\ ~DoubleSlashInside(instance.clientId)
       /\ ~DoubleSlashInside(instance.redirectUri)
       /\ ~EndsWithSlash(instance.clientMetadata.client_uri)

\* The callback of q exchanged the code into a session for d, stored it and
\* delivered its cookie.
IssuedFor(q, d) ==
  /\ Delivered(q)
  /\ Exchanged(q)
  /\ loc[q].exchange.val.did = d
  /\ WroteRecord(q)

\* The request of p carries the cookie the callback of q set.
Carries(p, q) == arg[p].cookie = [k |-> "sealed", did |-> Answer(q).setCookie.did]

RestoreSucceeded(p) == loc[p].restore.kind = "return" /\ loc[p].restore.val # Null

\* C22: after a login and a successful callback that exchanged the code into a
\* session for subject d, a getSessionFromRequest carrying the cookie that
\* callback issued, and whose restore succeeds, returns a session whose did is d.
C22_EndToEnd ==
  \A p \in Procs, q \in Procs, d \in DIDs :
    ( /\ IssuedFor(q, d)
      /\ arg[q].state = Param(TRUE, PlainStateText)
      /\ Finished(p, "getSessionFromRequest")
      /\ Carries(p, q)
      /\ RestoreSucceeded(p) )
    => /\ out[p].kind = "return"
       /\ Answer(p).session # Null
       /\ Answer(p).session.did = d
       /\ Answer(p).error = Undefined

\* The request began after the callback had stored the record, found it in
\* place, and got the session of d.
C22_Witness ==
  \E p \in Procs, q \in Procs, d \in DIDs :
    /\ IssuedFor(q, d)
    /\ Finished(p, "getSessionFromRequest")
    /\ Carries(p, q)
    /\ RestoreSucceeded(p)
    /\ snapshot[p][SessionKey(d)] # NoRecord
    /\ snapshot[p][SessionKey(d)].value = ToJSON(loc[q].session)
    /\ storage[SessionKey(d)] = snapshot[p][SessionKey(d)]
    /\ Answer(p).session.did = d

\* The subject an invocation acts for, read off what it was given: the did
\* argument, the session argument, the subject sealed in the request's cookie,
\* or the subject of the session the code was exchanged into.
SubjectOf(p) ==
  IF op[p] \in {"getOAuthSession", "deleteOAuthSession"} THEN arg[p].did
  ELSE IF op[p] = "saveOAuthSession" THEN arg[p].session.did
  ELSE IF op[p] \in {"getSessionFromRequest", "handleLogout"}
  THEN IF arg[p].cookie.k = "sealed" THEN arg[p].cookie.did ELSE ""
  ELSE IF op[p] = "handleCallback" /\ Exchanged(p) THEN loc[p].exchange.val.did
  ELSE ""

\* The collaborator call an invocation issued in this step, if any.
IssuedCall(p) == Len(calls'[p]) = Len(calls[p]) + 1

LastCall(p) == calls'[p][Len(calls'[p])]

\* C23: requests for different subjects are independent under every
\* interleaving: a step of an invocation acting for subject A restores only A
\* and sets or deletes only the key session:<A>, and whenever a stored record
\* changes, the step was taken by an invocation acting for that record's subject.
C23_SubjectsIndependent ==
  [][ /\ \A p \in Procs :
           IssuedCall(p) =>
             /\ LastCall(p).fn \in {"storage.set", "storage.delete"}
                  => LastCall(p).key = SessionKey(SubjectOf(p))
             /\ LastCall(p).fn = "restore" => LastCall(p).key = SubjectOf(p)
      /\ \A key \in Keys :
           storage'[key] # storage[key] =>
             \E p \in Procs : IssuedCall(p) /\ key = SessionKey(SubjectOf(p)) ]_vars

\* A callback for one subject stored its record and is still in flight when an
\* invocation for another subject begins, deletes under its own key and
\* finishes: the first subject's record is as the callback wrote it.
C23_Witness ==
  \E p \in Procs, q \in Procs :
    /\ SubjectOf(p) \in DIDs /\ SubjectOf(q) \in DIDs
    /\ SubjectOf(p) # SubjectOf(q)
    /\ pc[p] = "done" /\ pc[q] = "cb_cookie"
    /\ WroteRecord(q)
    /\ snapshot[p][SessionKey(SubjectOf(q))] # NoRecord
    /\ \E i \in 1..Len(calls[p]) :
         /\ calls[p][i].fn = "storage.delete"
         /\ calls[p][i].key = SessionKey(SubjectOf(p))
         /\ calls[p][i].result = "ok"
    /\ storage[SessionKey(SubjectOf(p))] = NoRecord
    /\ storage[SessionKey(SubjectOf(q))] # NoRecord
    /\ storage[SessionKey(SubjectOf(q))].value = ToJSON(loc[q].session)

\* The race was lost: the callback or save of p1 stored the subject's record,
\* the clean-up of p2's getOAuthSession deleted under the same key, and when
\* the subject's next request (p3) began the record was gone.
RaceLost ==
  /\ started = 3
  /\ Finished("p1", op["p1"]) /\ op["p1"] \in {"handleCallback", "saveOAuthSession"}
  /\ SubjectOf("p1") = RaceSubject
  /\ WroteRecord("p1")
  /\ Finished("p2", "getOAuthSession")
  /\ loc["p2"].cleanup = "ok"
  /\ op["p3"] = "getSessionFromRequest"
  /\ snapshot["p3"][SessionKey(RaceSubject)] = NoRecord

\* The subject logged in again and the callback exchanged, stored and
\* delivered.
LoggedInAgain ==
  /\ started >= 5
  /\ op["p1"] = "handleCallback"
  /\ IssuedFor("p1", RaceSubject)

\* C24: the same-subject race is self-healing: after the clean-up of a
\* getOAuthSession for d deleted the record a concurrent callback or save for d
\* had just stored, the next getSessionFromRequest for d returns session null
\* with SESSION_EXPIRED and does not raise; after a new login and callback for
\* d the record is stored again and a request whose restore succeeds gets the
\* session of d.
C24_RaceSelfHealing ==
  /\ (RaceLost /\ pc["p3"] = "done") =>
       /\ out["p3"].kind = "return"
       /\ Answer("p3").session = Null
       /\ Answer("p3").error.type = "SESSION_EXPIRED"
  /\ (LoggedInAgain /\ started = 5) =>
       /\ storage[SessionKey(RaceSubject)] # NoRecord
       /\ storage[SessionKey(RaceSubject)].value = ToJSON(loc["p1"].session)
  /\ (LoggedInAgain /\ started = 6 /\ pc["p3"] = "done" /\ RestoreSucceeded("p3")) =>
       /\ out["p3"].kind = "return"
       /\ Answer("p3").session # Null
       /\ Answer("p3").session.did = RaceSubject

\* The same with the cookie manager answering the requests of p3: every case
\* in which the cookie read returns is healed.
C24_HealedWhenCookieRead ==
  /\ (RaceLost /\ pc["p3"] = "done" /\ loc["p3"].sessionResult.kind = "return") =>
       /\ out["p3"].kind = "return"
       /\ Answer("p3").session = Null
       /\ Answer("p3").error.type = "SESSION_EXPIRED"
  /\ (LoggedInAgain /\ started = 5) =>
       /\ storage[SessionKey(RaceSubject)] # NoRecord
       /\ storage[SessionKey(RaceSubject)].value = ToJSON(loc["p1"].session)
  /\ (LoggedInAgain /\ started = 6 /\ pc["p3"] = "done" /\ RestoreSucceeded("p3")) =>
       /\ out["p3"].kind = "return"
       /\ Answer("p3").session # Null
       /\ Answer("p3").session.did = RaceSubject

\* The race is lost with a restore that began before the record was stored.
C24_RaceReached ==
  /\ RaceLost
  /\ snapshot["p2"][SessionKey(RaceSubject)] = NoRecord
  /\ pc["p3"] = "done" /\ out["p3"].kind = "return"
  /\ Answer("p3").error.type = "SESSION_EXPIRED"

\* After the lost race the subject is logged in again and served.
C24_HealedReached ==
  /\ LoggedInAgain /\ started = 6 /\ pc["p3"] = "done" /\ RestoreSucceeded("p3")
  /\ Answer("p3").session.did = RaceSubject

\* ------------------------------------------------------------ claims C31-C39

\* A callback (p) and a save (q), the only invocations so far, have both
\* written, for the same session.
SameSessionWritten(p, q) ==
  /\ started = 2
  /\ op[p] = "handleCallback" /\ Exchanged(p) /\ WroteRecord(p)
  /\ op[q] = "saveOAuthSession" /\ WroteRecord(q)
  /\ loc[p].exchange.val = arg[q].session

\* C31: handleCallback persists as the session store's save does: when a
\* callback and a saveOAuthSession, with no other invocation before or between
\* them, have written the same session, the one that
\* began on top of the other's record left the record exactly as it found it
\* (same key, same serialized value, same TTL).
C31_CallbackWritesAsSave ==
  \A p \in Procs, q \in Procs :
    SameSessionWritten(p, q) =>
      LET key == SessionKey(arg[q].session.did)
      IN /\ storage[key] # NoRecord
         /\ snapshot[p][key] # NoRecord => storage[key] = snapshot[p][key]
         /\ snapshot[q][key] # NoRecord => storage[key] = snapshot[q][key]

\* A save wrote on top of the record a callback had stored for the same session.
C31_Witness ==
  \E p \in Procs, q \in Procs :
    /\ SameSessionWritten(p, q)
    /\ snapshot[q][SessionKey(arg[q].session.did)] # NoRecord
    /\ snapshot[q][SessionKey(arg[q].session.did)].value = ToJSON(loc[p].session)
    /\ storage[SessionKey(arg[q].session.did)].ttl = DefaultSessionTtl

\* The delivery mode a login request asks for.
RequestedMode(a) ==
  IF a.mobile = Param(TRUE, "true") THEN "mobile"
  ELSE IF a.pwa = Param(TRUE, "true") THEN "pwa"
  ELSE "web"

\* What the callback parses out of the state string handleLogin gave to
\* authorize is what the login request asked for.
RoundTrip(p) ==
  LET a == arg[p]
      r == a.redirect
      relative == r.present /\ StartsWith(r.v, "/") /\ ~StartsWith(r.v, "//")
      parsed == CbEntry([code |-> Param(TRUE, "c0de"),
                         state |-> Param(TRUE, loc[p].options.state)])
  IN /\ parsed.at = "cb_exchange"
     /\ Get(parsed.state, "handle") = JStr(a.handle.v)
     /\ Get(parsed.state, "redirectPath") = (IF relative THEN JStr(r.v) ELSE Undefined)
     /\ Truthy(Get(parsed.state, "mobile")) <=> a.mobile = Param(TRUE, "true")
     /\ Truthy(Get(parsed.state, "pwa")) <=> a.pwa = Param(TRUE, "true")

\* handleLogin wrote nothing and set no cookie.
LoginLeftNoTrace(p) ==
  /\ storage = snapshot[p]
  /\ \A i \in 1..Len(calls[p]) : calls[p][i].fn = "authorize"
  /\ out[p].kind = "return" /\ Answer(p).setCookie = Undefined

DispatchOf(p) ==
  DeliveryMode(JSONParse(loc[p].options.state).val, mobileScheme)

\* C32 as stated: for every accepted login the state string given to authorize
\* parses back to the request's handle, validated redirect path and flags, the
\* callback dispatches in the mode requested at login, and handleLogin writes
\* nothing to storage and sets no cookie.
C32_FlowStateRoundTrip ==
  \A p \in Procs :
    AuthorizeCalled(p) =>
      /\ RoundTrip(p)
      /\ LoginLeftNoTrace(p)
      /\ DispatchOf(p) = RequestedMode(arg[p])

\* C32 amended: the same, the callback dispatching in the mode requested at
\* login when a mobile scheme is configured; without one a mobile request is
\* dispatched as PWA if pwa=true was given too and as web otherwise.
C32_FlowStateRoundTripByScheme ==
  \A p \in Procs :
    AuthorizeCalled(p) =>
      /\ RoundTrip(p)
      /\ LoginLeftNoTrace(p)
      /\ Truthy(mobileScheme) => DispatchOf(p) = RequestedMode(arg[p])
      /\ ~Truthy(mobileScheme) =>
           DispatchOf(p) = (IF arg[p].pwa = Param(TRUE, "true") THEN "pwa" ELSE "web")

\* A login asking for mobile delivery and a redirect path was accepted, with a
\* scheme configured.
C32_Witness ==
  \E p \in Procs :
    /\ AuthorizeCalled(p)
    /\ arg[p].mobile = Param(TRUE, "true")
    /\ arg[p].redirect = Param(TRUE, "/dashboard")
    /\ Truthy(mobileScheme)
    /\ DispatchOf(p) = "mobile"
    /\ Answer(p).status = 302

\* The logout of p2 carried a valid cookie of the subject and answered 200.
LoggedOut ==
  /\ Finished("p2", "handleLogout")
  /\ loc["p2"].sessionResult.kind = "return"
  /\ HasDid(loc["p2"].sessionResult.val)
  /\ loc["p2"].sessionResult.val.data.did = RaceSubject
  /\ Answer("p2").status = 200

\* The request of p3 that replays the subject's cookie after the logout is over.
Replayed ==
  /\ started = 8
  /\ Finished("p3", "getSessionFromRequest")

\* C33: logout ends the server-side session: a handleLogout with a valid
\* cookie for d that answered 200 has deleted session:<d>, and with no new
\* callback or save for d every getSessionFromRequest replaying the old cookie
\* returns session null.
C33_LogoutEndsSession ==
  LoggedOut =>
    /\ \E i \in 1..Len(calls["p2"]) :
         /\ calls["p2"][i].fn = "storage.delete"
         /\ calls["p2"][i].key = SessionKey(RaceSubject)
         /\ calls["p2"][i].result = "ok"
    /\ storage[SessionKey(RaceSubject)] = NoRecord
    /\ Replayed => (out["p3"].kind = "return" /\ Answer("p3").session = Null)

\* The same for the replays whose cookie read returns: none of them yields a
\* session.
C33_EndedWhenCookieRead ==
  LoggedOut =>
    /\ \E i \in 1..Len(calls["p2"]) :
         /\ calls["p2"][i].fn = "storage.delete"
         /\ calls["p2"][i].key = SessionKey(RaceSubject)
         /\ calls["p2"][i].result = "ok"
    /\ storage[SessionKey(RaceSubject)] = NoRecord
    /\ (Replayed /\ loc["p3"].sessionResult.kind = "return") =>
         (out["p3"].kind = "return" /\ Answer("p3").session = Null)

\* The logout found the record the new login's callback had stored, and the
\* replay of the cookie was answered with an expired session.
C33_LogoutReached ==
  /\ LoggedOut
  /\ snapshot["p2"][SessionKey(RaceSubject)] # NoRecord
  /\ Replayed
  /\ loc["p3"].sessionResult.kind = "return"
  /\ HasDid(loc["p3"].sessionResult.val)
  /\ out["p3"].kind = "return"
  /\ Answer("p3").error.type = "SESSION_EXPIRED"

\* C34: the PWA callback response carries no tokens: what the page embeds
\* besides its fixed text is the subject id and the handle of the flow state
\* and nothing else, so it is the same for sessions that differ only in their
\* tokens; the session cookie is in the Set-Cookie header only.
C34_PwaPageCarriesNoTokens ==
  \A p \in Procs :
    (Delivered(p) /\ Exchanged(p) /\ Answer(p).body.k = "html") =>
      /\ Answer(p).body = [ k |-> "html", did |-> loc[p].exchange.val.did,
                            handle |-> ToStr(Get(loc[p].state, "handle")) ]
      /\ Answer(p).setCookie = SetCookie(loc[p].exchange.val.did, "fresh")
      /\ Answer(p).location = Undefined

\* A PWA flow was delivered for a session with the second access token.
C34_Witness ==
  \E p \in Procs :
    /\ Delivered(p) /\ Exchanged(p) /\ PwaAnswer(p)
    /\ Truthy(Get(loc[p].state, "pwa"))
    /\ loc[p].exchange.val.accessToken = "at2"
    /\ Answer(p).body.did = loc[p].exchange.val.did

ErrorTypes == {"NO_COOKIE", "INVALID_COOKIE", "SESSION_EXPIRED", "OAUTH_ERROR", "UNKNOWN"}

\* C35: in every result getSessionFromRequest returns, either session is
\* non-null and there is no error, or session is null and there is an error
\* whose type is one of NO_COOKIE, INVALID_COOKIE, SESSION_EXPIRED, OAUTH_ERROR,
\* UNKNOWN.
C35_ResultShape ==
  \A p \in Procs :
    Answered(p, "getSessionFromRequest") =>
      /\ (Answer(p).session # Null) <=> (Answer(p).error = Undefined)
      /\ Answer(p).session = Null => Answer(p).error.type \in ErrorTypes

\* A cookie that yields neither a subject nor an error was answered with the
\* default error.
C35_Witness ==
  \E p \in Procs :
    /\ Answered(p, "getSessionFromRequest")
    /\ loc[p].sessionResult.val.data = Undefined
    /\ loc[p].sessionResult.val.error = Undefined
    /\ Answer(p).session = Null
    /\ Answer(p).error.type = "NO_COOKIE"

\* The operations that may store a record: a callback whose exchange gave a
\* session, and the store's save.
MayStore(p) ==
  \/ op[p] = "saveOAuthSession"
  \/ op[p] = "handleCallback" /\ Exchanged(p)

\* An invocation's calls have a storage.set among them.
StorageSetAmong(cs) == \E i \in 1..Len(cs) : cs[i].fn = "storage.set"

\* C36: under every interleaving a stored record is created or overwritten
\* only by a handleCallback whose code exchange succeeded and by
\* saveOAuthSession; handleLogin, handleLogout, getSessionFromRequest,
\* getOAuthSession and deleteOAuthSession never issue a storage set: they leave
\* a record as it is or remove it.
C36_OnlyCallbackAndSaveStore ==
  [][ /\ \A p \in Procs : StorageSetAmong(calls'[p]) => MayStore(p)
      /\ \A key \in Keys :
           storage'[key] # storage[key] =>
             \/ storage'[key] = NoRecord
             \/ \E p \in Procs : /\ MayStore(p)
                                  /\ IssuedCall(p)
                                  /\ LastCall(p).fn = "storage.set"
                                  /\ LastCall(p).key = key ]_vars

\* A getOAuthSession restored a session whose token is newer than the stored
\* one and left the stored record as it was.
C36_Witness ==
  \E p \in Procs :
    /\ Finished(p, "getOAuthSession")
    /\ RestoreSucceeded(p)
    /\ storage[SessionKey(arg[p].did)] # NoRecord
    /\ storage[SessionKey(arg[p].did)].value.accessToken # loc[p].restore.val.accessToken
    /\ storage = snapshot[p]

\* The flow state is the one a login without redirect, mobile or pwa writes.
BareState(state) == state.k = "obj" /\ DOMAIN state.v = {"handle", "timestamp"}

\* C37: the issuer-mismatch recovery redirect carries only the recovered
\* handle: its Location is the login path with the single parameter handle,
\* the login it leads to writes a flow state without redirectPath, mobile or
\* pwa, and a flow that completes after a recovery is delivered in web mode
\* to "/".
C37_RecoveryCarriesOnlyHandle ==
  /\ \A q \in Procs :
       (Finished(q, "handleCallback") /\ MismatchWithHandle(q)) =>
         /\ Answer(q).status = 302
         /\ Target(Answer(q).location.v) = "/login"
         /\ {n[2] : n \in QueryNames(Answer(q).location.v)} = {"handle"}
         /\ Cardinality(QueryNames(Answer(q).location.v)) = 1
  /\ AuthorizeCalled("p2") => BareState(PassedState("p2"))
  /\ (op["p3"] = "handleCallback" /\ Delivered("p3")) =>
       /\ BareState(loc["p3"].state)
       /\ Answer("p3").status = 302
       /\ Answer("p3").body = NoBody
       /\ Answer("p3").location = JStr("/")

\* A flow that asked for mobile delivery and a redirect path ran into an issuer
\* mismatch, was recovered, and completed in web mode at "/".
C37_Witness ==
  /\ Finished("p1", "handleCallback") /\ MismatchWithHandle("p1")
  /\ Truthy(Get(loc["p1"].state, "mobile"))
  /\ Get(loc["p1"].state, "redirectPath") = JStr("/dashboard")
  /\ AuthorizeCalled("p2")
  /\ arg["p2"].handle = Param(TRUE, loc["p1"].exchange.err.handle)
  /\ op["p3"] = "handleCallback" /\ Delivered("p3")
  /\ Answer("p3").location = JStr("/")

\* C38: issuer-mismatch recovery keeps no count: however many rounds came
\* before, a callback whose exchange ends in an issuer mismatch with a handle
\* makes its one collaborator call, writes nothing to storage and answers
\* with one redirect to login; nothing bounds the number of rounds.
C38_RecoveryKeepsNoCount ==
  \A q \in Procs :
    (Finished(q, "handleCallback") /\ MismatchWithHandle(q)) =>
      /\ Len(calls[q]) = 1 /\ calls[q][1].fn = "callback"
      /\ (q = "p3" \/ started = 1) => storage = snapshot[q]
      /\ out[q].kind = "return"
      /\ Answer(q).status = 302
      /\ StartsWith(Answer(q).location.v, "/login?handle=")

\* After MaxRounds recoveries the callback ends in an issuer mismatch again and
\* redirects to login once more.
C38_Witness ==
  /\ started = 2 * MaxRounds + 1
  /\ Finished("p3", "handleCallback")
  /\ MismatchWithHandle("p3")
  /\ Answer("p3").status = 302
  /\ Answer("p3").location = JStr("/login?handle=bob.test")

\* C39: for every valid configuration, loopback base URLs included, the
\* client_id and redirect_uri createATProtoOAuth gives the OAuth client are the
\* client_id and the single redirect URI of the client metadata the instance
\* publishes.
C39_ClientMatchesPublishedMetadata ==
  (instance.by = "createATProtoOAuth" /\ "OAuthClient" \in instance.built) =>
    /\ Len(instance.clientMetadata.redirect_uris) = 1
    /\ instance.clientId = instance.clientMetadata.client_id
    /\ instance.redirectUri = instance.clientMetadata.redirect_uris[1]

\* The same for the base URLs that are not loopback and end in at most one
\* slash: there the two agree.
C39_AgreeOffLoopback ==
  ( /\ instance.by = "createATProtoOAuth" /\ "OAuthClient" \in instance.built
    /\ instance.config.baseUrl \notin DOMAIN LoopbackOrigin
    /\ ~EndsWithSlash(StripTrailingSlash(instance.config.baseUrl)) ) =>
    /\ Len(instance.clientMetadata.redirect_uris) = 1
    /\ instance.clientId = instance.clientMetadata.client_id
    /\ instance.redirectUri = instance.clientMetadata.redirect_uris[1]

\* An instance was built for a loopback base URL.
C39_LoopbackBuilt ==
  /\ instance.by = "createATProtoOAuth" /\ "OAuthClient" \in instance.built
  /\ instance.config.baseUrl = "http://localhost:8000"
  /\ instance.clientId = "http://localhost:8000/oauth-client-metadata.json"
  /\ instance.clientMetadata.redirect_uris = <<"http://127.0.0.1:8000/oauth/callback">>

====
